---- MODULE Spec2Model ----
(***************************************************************************)
(* Model of the column-normalization and code-safety pipeline of autoscout *)
(* (src/utils/visualization_utils.py, src/utils/validators.py).            *)
(*                                                                         *)
(* A table (pandas DataFrame) is a sequence of columns, each a record      *)
(* [name, dtype, vals].  A text (Python str) that the program searches or  *)
(* rewrites is a sequence of lexemes; a formatted log entry is the         *)
(* sequence of the pieces its f-string concatenates.                       *)
(***************************************************************************)
EXTENDS Integers, Sequences, FiniteSets, TLC

VARIABLES
    df,               \* VisualizationUtils.df: the table object the caller handed in
    df_source,        \* history: the value of that object when it was handed in
    corrections_log,  \* VisualizationUtils.corrections_log
    df_normalized,    \* the table returned by the last normalize_columns()
    renormalized,     \* VisualizationUtils(df_normalized).normalize_columns()
    reordered,        \* normalize_columns() run with the alias map in another order
    surface,          \* pyplot's current figure (process-global): what is drawn on it
    calls,            \* history: the number of execute_code_safely() calls so far
    code_block,       \* the code block at hand
    returned,         \* the value the last method call returned
    executed,         \* what the last execute_code_safely() passed to exec, if anything
    raised,           \* the exception the last execute_code_safely() or
                      \* auto_fix_plot_code() call let propagate, if any
    resolved,         \* the names the code of the last exec looked up and found
    invocations,      \* the execute_code_safely() calls in progress in the process
    full_response,    \* the text the model generated for a report, or the
                      \* fragments of it received so far
    api_key,          \* the OpenRouter key of the process, if it has one
    uploaded_file,    \* what the user uploaded
    report_type,      \* the report type the user selected
    remote,           \* what the remote service will do for the request
    prompts,          \* the prompts handed to generate_report_stream
    pc,               \* where the run of the pipeline is
    requests,         \* history: the number of requests sent to the remote service
    received,         \* the number of chunks read from the stream
    shown,            \* the messages the page shows
    is_valid,         \* what validate_uploaded_file reported, if it was called
    is_valid_for_report, \* what validate_dataframe_for_report reported, likewise
    sent,             \* the arguments of the last request sent, if one was
    op                \* the operation that produced this state

vars == <<df, df_source, corrections_log, df_normalized, renormalized, reordered,
          surface, calls, code_block, returned, executed, raised, resolved,
          invocations, full_response, api_key, uploaded_file, report_type,
          remote, prompts, pc, requests, received, shown, is_valid,
          is_valid_for_report, sent, op>>

execVars == <<surface, calls, code_block, returned, executed, raised, resolved>>

\* What the report pipeline and concurrent callers add to a session.
appVars == <<invocations, full_response, api_key, uploaded_file, report_type,
             remote, prompts, pc, requests, received, shown, is_valid,
             is_valid_for_report, sent>>

----------------------------------------------------------------------------
(* Bounds of the model. *)

MaxCols == 3

\* Optional values: None is the empty tuple, Some(x) the one-element tuple.
None == <<>>

\* No report is being generated and no call is in progress.
NoPipeline ==
    /\ invocations = <<>>
    /\ full_response = <<>>
    /\ api_key = None
    /\ uploaded_file = None
    /\ report_type = "Match Report"
    /\ remote = None
    /\ prompts = None
    /\ pc = "idle"
    /\ requests = 0
    /\ received = 0
    /\ shown = <<>>
    /\ is_valid = None
    /\ is_valid_for_report = None
    /\ sent = None

Some(x) == <<x>>

The(o) == o[1]

----------------------------------------------------------------------------
(* Tables. *)

Range(s) == {s[i] : i \in 1..Len(s)}

Columns(t) == {t[i].name : i \in 1..Len(t)}

HasCol(t, name) == name \in Columns(t)

Col(t, name) == t[CHOOSE i \in 1..Len(t) : t[i].name = name]

\* pandas df[name] = series: overwrite the column in place, or append it.
SetColumn(t, name, series) ==
    IF HasCol(t, name)
    THEN [i \in 1..Len(t) |->
            IF t[i].name = name
            THEN [name |-> name, dtype |-> series.dtype, vals |-> series.vals]
            ELSE t[i]]
    ELSE Append(t, [name |-> name, dtype |-> series.dtype, vals |-> series.vals])

----------------------------------------------------------------------------
(* COLUMN_ALIASES, in the dict's insertion order. *)

COLUMN_ALIASES_chained ==
    << <<"Team", "Club">>,
       <<"Squad", "Team">>, <<"Team Name", "Team">>, <<"Squad Name", "Team">>,
       <<"Club", "Team">>, <<"Club Name", "Team">>,
       <<"Player Name", "Player">>, <<"Name", "Player">> >>

COLUMN_ALIASES ==
    << <<"Squad", "Team">>,
       <<"Team Name", "Team">>,
       <<"Squad Name", "Team">>,
       <<"Club", "Team">>,
       <<"Club Name", "Team">>,
       <<"Player Name", "Player">>,
       <<"Player_Name", "Player">>,
       <<"Name", "Player">>,
       <<"Full Name", "Player">>,
       <<"playerName", "Player">>,
       <<"Position", "Pos">>,
       <<"Player Position", "Pos">>,
       <<"Role", "Pos">>,
       <<"X", "x">>,
       <<"Y", "y">>,
       <<"End X", "end_x">>,
       <<"End Y", "end_y">>,
       <<"Start X", "start_x">>,
       <<"Start Y", "start_y">>,
       <<"Event", "Event Type">>,
       <<"Action", "Event Type">>,
       <<"Type", "Event Type">>,
       <<"Match", "Match ID">>,
       <<"Game", "Match ID">>,
       <<"Fixture", "Match ID">> >>

----------------------------------------------------------------------------
(* VisualizationUtils.normalize_columns *)

\* The f-string "Column mapping: '{alias}' → '{canonical}'".
MappingEntry_doublequoted(alias, canonical) ==
    <<"Column mapping: ", "\"", alias, "\"", " → ", "\"", canonical, "\"">>

MappingEntry(alias, canonical) ==
    <<"Column mapping: ", "'", alias, "'", " → ", "'", canonical, "'">>

\* The guard of the loop body, on the table being built.
ShouldMap_unguarded(t, alias, canonical) == HasCol(t, alias)

ShouldMap(t, alias, canonical) == HasCol(t, alias) /\ ~HasCol(t, canonical)

\* The loop over aliases.items(), from entry i on; t is df_normalized and
\* log the entries appended so far.
RECURSIVE NormalizeLoop(_, _, _, _)
NormalizeLoop(aliases, i, t, log) ==
    IF i > Len(aliases) THEN [df |-> t, log |-> log]
    ELSE LET alias == aliases[i][1]
             canonical == aliases[i][2]
         IN  IF ShouldMap(t, alias, canonical)
             THEN NormalizeLoop(aliases, i + 1,
                                SetColumn(t, canonical, Col(t, alias)),
                                Append(log, MappingEntry(alias, canonical)))
             ELSE NormalizeLoop(aliases, i + 1, t, log)

\* normalize_columns() on a VisualizationUtils holding table t: the table it
\* returns and the entries it appends to corrections_log.  The copy of
\* self.df is a new value; t itself is not touched.
normalize_columns(aliases, t) == NormalizeLoop(aliases, 1, t, <<>>)

\* The alias map with entry i moved to the front, and reversed.
MoveToFront(s, i) ==
    <<s[i]>> \o SubSeq(s, 1, i - 1) \o SubSeq(s, i + 1, Len(s))

Reverse(s) == [i \in 1..Len(s) |-> s[Len(s) + 1 - i]]

AliasOrders ==
    {MoveToFront(COLUMN_ALIASES, i) : i \in 1..Len(COLUMN_ALIASES)}
        \cup {Reverse(COLUMN_ALIASES)}

----------------------------------------------------------------------------
(* Input tables of the normalization specification. *)

Null == "NaN"

ColumnData ==
    { [dtype |-> "object", vals |-> <<"a", "b">>],
      [dtype |-> "object", vals |-> <<"c", Null>>] }

NormNames == {"Squad", "Squad Name", "Team", "Name", "Goals"}

RECURSIVE TablesOver(_, _)
TablesOver(names, n) ==
    IF n = 0 THEN {<<>>}
    ELSE LET shorter == TablesOver(names, n - 1)
         IN  shorter \cup
             { Append(t, [name |-> c, dtype |-> d.dtype, vals |-> d.vals]) :
                 t \in {u \in shorter : Len(u) = n - 1},
                 c \in names, d \in ColumnData }

DistinctNames(t) == \A i, j \in 1..Len(t) : t[i].name = t[j].name => i = j

NormTables == {t \in TablesOver(NormNames, MaxCols) : DistinctNames(t)}

----------------------------------------------------------------------------
(* The normalization specification: a table is handed to VisualizationUtils *)
(* and normalized; the result is normalized again by a second instance, and *)
(* the same table is normalized with the alias map in another order.        *)

InitNorm ==
    /\ df \in NormTables
    /\ df_source = df
    /\ corrections_log = <<>>
    /\ df_normalized = None
    /\ renormalized = None
    /\ reordered = None
    /\ surface = <<>>
    /\ calls = 0
    /\ code_block = <<>>
    /\ returned = None
    /\ executed = None
    /\ raised = None
    /\ resolved = {}
    /\ NoPipeline
    /\ op = "init"

Normalize ==
    /\ df_normalized = None
    /\ LET r == normalize_columns(COLUMN_ALIASES, df)
       IN  /\ df_normalized' = Some(r.df)
           /\ corrections_log' = corrections_log \o r.log
    /\ op' = "normalize_columns"
    /\ UNCHANGED <<df, df_source, renormalized, reordered, execVars, appVars>>

NormalizeAgain ==
    /\ df_normalized # None
    /\ renormalized = None
    /\ renormalized' = Some(normalize_columns(COLUMN_ALIASES, The(df_normalized)))
    /\ op' = "normalize_again"
    /\ UNCHANGED <<df, df_source, corrections_log, df_normalized, reordered, execVars, appVars>>

NormalizeReordered ==
    /\ df_normalized # None
    /\ reordered = None
    /\ \E order \in AliasOrders :
          reordered' = Some(normalize_columns(order, df))
    /\ op' = "normalize_reordered"
    /\ UNCHANGED <<df, df_source, corrections_log, df_normalized, renormalized, execVars, appVars>>

NextNorm == Normalize \/ NormalizeAgain \/ NormalizeReordered

SpecNorm == InitNorm /\ [][NextNorm]_vars

----------------------------------------------------------------------------
(* Texts.  A Python string that is searched or rewritten is a sequence of  *)
(* lexemes: names, numbers, punctuation marks and white space, each one    *)
(* string.  The texts of the model are built from a lexicon in which no    *)
(* name contains another name of the lexicon, so that a match of a literal *)
(* or of a pattern in the string is a match of its lexemes in the sequence.*)

\* str.lower() of a lexeme, as re.IGNORECASE compares it, of a column name
\* and of a file suffix.
Lower(x) ==
    CASE x = "IMPORT" -> "import"
      [] x = ".CSV" -> ".csv"
      [] x = "Goals" -> "goals"
      [] x = "Summary" -> "summary"
      [] x = "squadName" -> "squadname"
      [] x = "OS" -> "os"
      [] x = "LEN" -> "len"
      [] x = "Pitch" -> "pitch"
      [] x = "Player" -> "player"
      [] x = "Players" -> "players"
      [] x = "Team" -> "team"
      [] x = "New" -> "new"
      [] x = "Squad" -> "squad"
      [] x = "Name" -> "name"
      [] x = "xG" -> "xg"
      [] OTHER -> x

\* \s of the re module.
IsSpace(x) == x \in {" ", "\n", "\t"}

\* text[i..] starts with the literal lit.
StartsAt(text, i, lit) ==
    /\ i + Len(lit) - 1 <= Len(text)
    /\ \A k \in 1..Len(lit) : text[i + k - 1] = lit[k]

\* lit in text
Contains(text, lit) == \E i \in 1..Len(text) + 1 : StartsAt(text, i, lit)

\* str.replace(old, new): the occurrences of old, left to right and not
\* overlapping, from position i on.
RECURSIVE ReplaceFrom(_, _, _, _)
ReplaceFrom(text, i, old, new) ==
    IF i > Len(text) THEN <<>>
    ELSE IF Len(old) > 0 /\ StartsAt(text, i, old)
         THEN new \o ReplaceFrom(text, i + Len(old), old, new)
         ELSE <<text[i]>> \o ReplaceFrom(text, i + 1, old, new)

Replace(text, old, new) == ReplaceFrom(text, 1, old, new)

----------------------------------------------------------------------------
(* DANGEROUS_PATTERNS, in list order.  src is the regular expression as    *)
(* written; its shape is one of: "import" (import\s+word), "call"          *)
(* (word\() and "word" (the word itself).                                  *)

DANGEROUS_PATTERNS ==
    << [src |-> "import\\s+os", shape |-> "import", word |-> "os"],
       [src |-> "import\\s+subprocess", shape |-> "import", word |-> "subprocess"],
       [src |-> "import\\s+sys", shape |-> "import", word |-> "sys"],
       [src |-> "open\\(", shape |-> "call", word |-> "open"],
       [src |-> "eval\\(", shape |-> "call", word |-> "eval"],
       [src |-> "exec\\(", shape |-> "call", word |-> "exec"],
       [src |-> "__import__", shape |-> "word", word |-> "__import__"],
       [src |-> "globals\\(", shape |-> "call", word |-> "globals"],
       [src |-> "locals\\(", shape |-> "call", word |-> "locals"],
       [src |-> "compile\\(", shape |-> "call", word |-> "compile"],
       [src |-> "file\\(", shape |-> "call", word |-> "file"],
       [src |-> "input\\(", shape |-> "call", word |-> "input"],
       [src |-> "raw_input\\(", shape |-> "call", word |-> "raw_input"],
       [src |-> "help\\(", shape |-> "call", word |-> "help"],
       [src |-> "vars\\(", shape |-> "call", word |-> "vars"],
       [src |-> "dir\\(", shape |-> "call", word |-> "dir"],
       [src |-> "type\\(", shape |-> "call", word |-> "type"],
       [src |-> "getattr\\(", shape |-> "call", word |-> "getattr"],
       [src |-> "setattr\\(", shape |-> "call", word |-> "setattr"],
       [src |-> "delattr\\(", shape |-> "call", word |-> "delattr"],
       [src |-> "hasattr\\(", shape |-> "call", word |-> "hasattr"],
       [src |-> "property\\(", shape |-> "call", word |-> "property"],
       [src |-> "super\\(", shape |-> "call", word |-> "super"],
       [src |-> "staticmethod\\(", shape |-> "call", word |-> "staticmethod"],
       [src |-> "classmethod\\(", shape |-> "call", word |-> "classmethod"],
       [src |-> "issubclass\\(", shape |-> "call", word |-> "issubclass"],
       [src |-> "isinstance\\(", shape |-> "call", word |-> "isinstance"],
       [src |-> "callable\\(", shape |-> "call", word |-> "callable"],
       [src |-> "hash\\(", shape |-> "call", word |-> "hash"],
       [src |-> "id\\(", shape |-> "call", word |-> "id"],
       [src |-> "len\\(", shape |-> "call", word |-> "len"],
       [src |-> "abs\\(", shape |-> "call", word |-> "abs"],
       [src |-> "all\\(", shape |-> "call", word |-> "all"],
       [src |-> "any\\(", shape |-> "call", word |-> "any"],
       [src |-> "bin\\(", shape |-> "call", word |-> "bin"],
       [src |-> "bool\\(", shape |-> "call", word |-> "bool"],
       [src |-> "chr\\(", shape |-> "call", word |-> "chr"],
       [src |-> "complex\\(", shape |-> "call", word |-> "complex"],
       [src |-> "dict\\(", shape |-> "call", word |-> "dict"],
       [src |-> "divmod\\(", shape |-> "call", word |-> "divmod"],
       [src |-> "enumerate\\(", shape |-> "call", word |-> "enumerate"],
       [src |-> "filter\\(", shape |-> "call", word |-> "filter"],
       [src |-> "float\\(", shape |-> "call", word |-> "float"],
       [src |-> "format\\(", shape |-> "call", word |-> "format"],
       [src |-> "frozenset\\(", shape |-> "call", word |-> "frozenset"],
       [src |-> "hex\\(", shape |-> "call", word |-> "hex"],
       [src |-> "int\\(", shape |-> "call", word |-> "int"],
       [src |-> "list\\(", shape |-> "call", word |-> "list"],
       [src |-> "map\\(", shape |-> "call", word |-> "map"],
       [src |-> "max\\(", shape |-> "call", word |-> "max"],
       [src |-> "min\\(", shape |-> "call", word |-> "min"],
       [src |-> "next\\(", shape |-> "call", word |-> "next"],
       [src |-> "oct\\(", shape |-> "call", word |-> "oct"],
       [src |-> "ord\\(", shape |-> "call", word |-> "ord"],
       [src |-> "pow\\(", shape |-> "call", word |-> "pow"],
       [src |-> "print\\(", shape |-> "call", word |-> "print"],
       [src |-> "range\\(", shape |-> "call", word |-> "range"],
       [src |-> "repr\\(", shape |-> "call", word |-> "repr"],
       [src |-> "reversed\\(", shape |-> "call", word |-> "reversed"],
       [src |-> "round\\(", shape |-> "call", word |-> "round"],
       [src |-> "set\\(", shape |-> "call", word |-> "set"],
       [src |-> "slice\\(", shape |-> "call", word |-> "slice"],
       [src |-> "sorted\\(", shape |-> "call", word |-> "sorted"],
       [src |-> "str\\(", shape |-> "call", word |-> "str"],
       [src |-> "sum\\(", shape |-> "call", word |-> "sum"],
       [src |-> "tuple\\(", shape |-> "call", word |-> "tuple"],
       [src |-> "zip\\(", shape |-> "call", word |-> "zip"] >>

\* The positions at which a run of one or more white-space lexemes that
\* starts at i can end: where \s+ can stop.
RECURSIVE SpaceRunEnds(_, _)
SpaceRunEnds(text, i) ==
    IF i > Len(text) \/ ~IsSpace(text[i]) THEN {}
    ELSE {i} \cup SpaceRunEnds(text, i + 1)

\* A match of the pattern that starts at position i, with re.IGNORECASE or
\* without.
MatchesAt(pattern, text, i, ignorecase) ==
    LET same(x, w) == IF ignorecase THEN Lower(x) = Lower(w) ELSE x = w
    IN  CASE pattern.shape = "import" ->
               /\ same(text[i], "import")
               /\ \E e \in SpaceRunEnds(text, i + 1) :
                     e + 1 <= Len(text) /\ same(text[e + 1], pattern.word)
          [] pattern.shape = "call" ->
               /\ i + 1 <= Len(text) /\ text[i + 1] = "("
               /\ same(text[i], pattern.word)
          [] pattern.shape = "word" ->
               same(text[i], pattern.word)

\* re.search(pattern, code) is not None: the search without re.IGNORECASE.
re_search_casesensitive(pattern, text) ==
    \E i \in 1..Len(text) : MatchesAt(pattern, text, i, FALSE)

\* re.search(pattern, code, re.IGNORECASE) is not None.  The literals of the
\* patterns are written in lower case.
re_search(pattern, text) ==
    CASE pattern.shape = "import" ->
           \E i \in 1..Len(text) :
              /\ Lower(text[i]) = "import"
              /\ \E e \in SpaceRunEnds(text, i + 1) :
                    e + 1 <= Len(text) /\ Lower(text[e + 1]) = pattern.word
      [] pattern.shape = "call" ->
           \E i \in 1..Len(text) - 1 :
              text[i + 1] = "(" /\ Lower(text[i]) = pattern.word
      [] pattern.shape = "word" ->
           \E i \in 1..Len(text) : Lower(text[i]) = pattern.word

----------------------------------------------------------------------------
(* VisualizationUtils.check_code_safety *)

\* The f-string "Blocked dangerous pattern: {pattern}".
IssueEntry(pattern) == <<"Blocked dangerous pattern: ", pattern.src>>

\* The loop over DANGEROUS_PATTERNS from entry k on; issues is the list so far.
RECURSIVE SafetyLoop_firstonly(_, _, _)
SafetyLoop_firstonly(code, k, issues) ==
    IF k > Len(DANGEROUS_PATTERNS) \/ Len(issues) > 0 THEN issues
    ELSE IF re_search(DANGEROUS_PATTERNS[k], code)
         THEN SafetyLoop_firstonly(code, k + 1,
                                   Append(issues, IssueEntry(DANGEROUS_PATTERNS[k])))
         ELSE SafetyLoop_firstonly(code, k + 1, issues)

RECURSIVE SafetyLoop(_, _, _)
SafetyLoop(code, k, issues) ==
    IF k > Len(DANGEROUS_PATTERNS) THEN issues
    ELSE IF re_search(DANGEROUS_PATTERNS[k], code)
         THEN SafetyLoop(code, k + 1,
                         Append(issues, IssueEntry(DANGEROUS_PATTERNS[k])))
         ELSE SafetyLoop(code, k + 1, issues)

\* check_code_safety(code): the pair (len(issues) == 0, issues).
check_code_safety(code) ==
    LET issues == SafetyLoop(code, 1, <<>>)
    IN  [safe |-> Len(issues) = 0, issues |-> issues]

----------------------------------------------------------------------------
(* Column names.  A column name is one string in a table; Lex gives the    *)
(* lexemes it is written with inside a text and Spell the characters of a  *)
(* lexeme, which difflib and str.lower() work on.                          *)

Lex(name) ==
    CASE name = "sum(xG)" -> <<"sum", "(", "xG", ")">>
      [] name = "sum (xG)" -> <<"sum", " ", "(", "xG", ")">>
      [] name = "Goals\\Assists" -> <<"Goals", "\\", "Assists">>
      [] name = "Goals Assists" -> <<"Goals", " ", "Assists">>
      [] OTHER -> <<name>>

\* The characters of a lexeme; a lexeme not listed is a single character.
Spell(x) ==
    CASE x = "Player" -> <<"P", "l", "a", "y", "e", "r">>
      [] x = "Players" -> <<"P", "l", "a", "y", "e", "r", "s">>
      [] x = "Team" -> <<"T", "e", "a", "m">>
      [] x = "Squad" -> <<"S", "q", "u", "a", "d">>
      [] x = "Goals" -> <<"G", "o", "a", "l", "s">>
      [] x = "Assists" -> <<"A", "s", "s", "i", "s", "t", "s">>
      [] x = "Name" -> <<"N", "a", "m", "e">>
      [] x = "New" -> <<"N", "e", "w">>
      [] x = "zzz" -> <<"z", "z", "z">>
      [] x = "sum" -> <<"s", "u", "m">>
      [] x = "xG" -> <<"x", "G">>
      [] x = "player" -> <<"p", "l", "a", "y", "e", "r">>
      [] x = "team" -> <<"t", "e", "a", "m">>
      [] x = "match" -> <<"m", "a", "t", "c", "h">>
      [] x = "password" -> <<"p", "a", "s", "s", "w", "o", "r", "d">>
      [] x = "token" -> <<"t", "o", "k", "e", "n">>
      [] x = "key" -> <<"k", "e", "y">>
      [] x = "secret" -> <<"s", "e", "c", "r", "e", "t">>
      [] x = "id" -> <<"i", "d">>
      [] x = "email" -> <<"e", "m", "a", "i", "l">>
      [] x = "nan" -> <<"n", "a", "n">>
      [] OTHER -> <<x>>

RECURSIVE Chars(_)
Chars(text) == IF text = <<>> THEN <<>> ELSE Spell(Head(text)) \o Chars(Tail(text))

\* The code point of a character (ord), for the characters Spell produces.
Ord(c) ==
    CASE c = " " -> 32
      [] c = "(" -> 40
      [] c = ")" -> 41
      [] c = "A" -> 65
      [] c = "G" -> 71
      [] c = "N" -> 78
      [] c = "P" -> 80
      [] c = "S" -> 83
      [] c = "T" -> 84
      [] c = "\\" -> 92
      [] c = "a" -> 97
      [] c = "c" -> 99
      [] c = "d" -> 100
      [] c = "e" -> 101
      [] c = "h" -> 104
      [] c = "i" -> 105
      [] c = "k" -> 107
      [] c = "l" -> 108
      [] c = "m" -> 109
      [] c = "n" -> 110
      [] c = "o" -> 111
      [] c = "p" -> 112
      [] c = "q" -> 113
      [] c = "r" -> 114
      [] c = "s" -> 115
      [] c = "t" -> 116
      [] c = "u" -> 117
      [] c = "w" -> 119
      [] c = "x" -> 120
      [] c = "y" -> 121
      [] c = "z" -> 122

\* str.lower() of a character.
LowerChar(c) ==
    CASE c = "G" -> "g"
      [] c = "N" -> "n"
      [] c = "P" -> "p"
      [] c = "S" -> "s"
      [] c = "T" -> "t"
      [] OTHER -> c

\* Python's order on strings, on their characters: a < b.
RECURSIVE StrLess(_, _)
StrLess(a, b) ==
    IF b = <<>> THEN FALSE
    ELSE IF a = <<>> THEN TRUE
    ELSE IF Head(a) = Head(b) THEN StrLess(Tail(a), Tail(b))
    ELSE Ord(Head(a)) < Ord(Head(b))

----------------------------------------------------------------------------
(* difflib.SequenceMatcher and difflib.get_close_matches, on character     *)
(* sequences (no junk: autojunk only applies to sequences of 200 or more). *)

\* The length of the common run of a from i and b from j, below the ends.
RECURSIVE CommonRun(_, _, _, _, _, _)
CommonRun(a, b, i, j, ahi, bhi) ==
    IF i > ahi \/ j > bhi \/ a[i] # b[j] THEN 0
    ELSE 1 + CommonRun(a, b, i + 1, j + 1, ahi, bhi)

\* The least and the greatest member of a set of numbers.
Earliest(S) == CHOOSE x \in S : \A y \in S : x <= y

Largest(S) == CHOOSE x \in S : \A y \in S : y <= x

\* Of the blocks of length n, size[i][j] being the length of the common run
\* from (i, j): the one that starts earliest in a and then earliest in b.
EarliestBlock(size, n, rows, cols) ==
    LET besti == Earliest({i \in rows : \E j \in cols : size[i][j] = n})
    IN  [i |-> besti,
         j |-> Earliest({j \in cols : size[besti][j] = n}),
         size |-> n]

\* find_longest_match(alo, ahi, blo, bhi), bounds inclusive: the longest
\* matching block, the one starting earliest in a and then earliest in b.
find_longest_match(a, b, alo, ahi, blo, bhi) ==
    LET size == [i \in alo..ahi |->
                    [j \in blo..bhi |-> CommonRun(a, b, i, j, ahi, bhi)]]
    IN  EarliestBlock(size,
                      Largest({size[i][j] : i \in alo..ahi, j \in blo..bhi}),
                      alo..ahi, blo..bhi)

\* The total size of get_matching_blocks() within the given bounds.
RECURSIVE MatchingSize(_, _, _, _, _, _)
MatchingSize(a, b, alo, ahi, blo, bhi) ==
    IF alo > ahi \/ blo > bhi THEN 0
    ELSE LET m == find_longest_match(a, b, alo, ahi, blo, bhi)
         IN  IF m.size = 0 THEN 0
             ELSE m.size
                  + MatchingSize(a, b, alo, m.i - 1, blo, m.j - 1)
                  + MatchingSize(a, b, m.i + m.size, ahi, m.j + m.size, bhi)

\* SequenceMatcher(a, b).ratio() = 2.0 * matches / (len(a) + len(b)), kept
\* as the fraction [num, den]; 1.0 when both are empty.
ratio(a, b) ==
    IF Len(a) + Len(b) = 0 THEN [num |-> 1, den |-> 1]
    ELSE [num |-> 2 * MatchingSize(a, b, 1, Len(a), 1, Len(b)),
          den |-> Len(a) + Len(b)]

\* ratio >= cutoff, for the cutoff 0.6 = 3/5.
CutoffNum == 3
CutoffDen == 5

\* A cutoff of 0.15 in place of 0.6.
ReachesCutoff_lowered(r) == r.num * 20 >= 3 * r.den

ReachesCutoff(r) == r.num * CutoffDen >= CutoffNum * r.den

\* get_close_matches(word, possibilities, n=1, cutoff=0.6): the list with
\* the possibility of the highest (ratio, name), or the empty list.  word
\* is a column name as a text; possibilities and the result are names.
get_close_matches(word, possibilities) ==
    LET score(x) == ratio(Chars(Lex(x)), Chars(word))
        close == {x \in possibilities : ReachesCutoff(score(x))}
        above(x, y) ==
            \/ score(x).num * score(y).den > score(y).num * score(x).den
            \/ /\ score(x).num * score(y).den = score(y).num * score(x).den
               /\ StrLess(Chars(Lex(y)), Chars(Lex(x)))
    IN  IF close = {} THEN <<>>
        ELSE <<CHOOSE x \in close : \A y \in close \ {x} : above(x, y)>>

----------------------------------------------------------------------------
(* VisualizationUtils.auto_fix_plot_code *)

\* The replacements dict, in insertion order, as (wrong, right) texts.
replacements ==
    << << <<"mplsoccer", "(", ")">>, <<"Pitch", "(", ")">> >>,
       << <<"mplsoccer", ".", "Pitch", "(", ")">>, <<"Pitch", "(", ")">> >>,
       << <<"from", " ", "mplsoccer", " ", "import", " ", "*">>,
          <<"from", " ", "mplsoccer", " ", "import", " ", "Pitch">> >>,
       << <<"plt", ".", "show", "(", ")", "(", ")">>, <<"plt", ".", "show", "(", ")">> >>,
       << <<"plt", ".", "plt", ".">>, <<"plt", ".">> >>,
       << <<"plt", ".", ".">>, <<"plt", ".">> >>,
       << <<"df", ".", "plot", "(", ")">>, <<"df", ".", "plot", "(", ")">> >> >>

\* The f-string "Code fix: '{wrong}' → '{right}'".
CodeFixEntry(wrong, right) ==
    <<"Code fix: ", "'">> \o wrong \o <<"'", " → ", "'">> \o right \o <<"'">>

\* The loop over replacements.items() from entry k on.
RECURSIVE ReplacementsLoop(_, _, _)
ReplacementsLoop(fixed_code, corrections, k) ==
    IF k > Len(replacements) THEN [code |-> fixed_code, corrections |-> corrections]
    ELSE LET wrong == replacements[k][1]
             right == replacements[k][2]
         IN  IF Contains(fixed_code, wrong)
             THEN ReplacementsLoop(Replace(fixed_code, wrong, right),
                                   Append(corrections, CodeFixEntry(wrong, right)),
                                   k + 1)
             ELSE ReplacementsLoop(fixed_code, corrections, k + 1)

Quotes == {"'", "\""}

\* From position j on, the position of the first quote that is followed by
\* "]" with no line break before it (the end of the lazy group .*?), or 0.
RECURSIVE GroupEnd(_, _)
GroupEnd(text, j) ==
    IF j + 1 > Len(text) THEN 0
    ELSE IF text[j] \in Quotes /\ text[j + 1] = "]" THEN j
    ELSE IF text[j] = "\n" THEN 0
    ELSE GroupEnd(text, j + 1)

\* A match of df\[['\"] starts at position i.
RefOpensAt(text, i) ==
    /\ i + 2 <= Len(text)
    /\ text[i] = "df" /\ text[i + 1] = "[" /\ text[i + 2] \in Quotes

\* re.findall(r"df\[['\"](.*?)['\"]\]", text): the groups of the matches,
\* left to right, from position i on.
RECURSIVE FindColumnRefs(_, _)
FindColumnRefs(text, i) ==
    IF i > Len(text) THEN <<>>
    ELSE IF RefOpensAt(text, i) /\ GroupEnd(text, i + 3) # 0
         THEN <<SubSeq(text, i + 3, GroupEnd(text, i + 3) - 1)>>
                  \o FindColumnRefs(text, GroupEnd(text, i + 3) + 2)
         ELSE FindColumnRefs(text, i + 1)

\* re.sub(rf"df\[['\"]{re.escape(col)}['\"]\]", repl, text), from position i on.
RECURSIVE SubColumnRef(_, _, _, _)
SubColumnRef(text, i, col, repl) ==
    IF i > Len(text) THEN <<>>
    ELSE IF /\ RefOpensAt(text, i)
            /\ StartsAt(text, i + 3, col)
            /\ i + 4 + Len(col) <= Len(text)
            /\ text[i + 3 + Len(col)] \in Quotes
            /\ text[i + 4 + Len(col)] = "]"
         THEN repl \o SubColumnRef(text, i + 5 + Len(col), col, repl)
         ELSE <<text[i]>> \o SubColumnRef(text, i + 1, col, repl)

\* col in self.df.columns, for a name found in a text.
InColumns(t, col) == \E c \in Columns(t) : Lex(c) = col

\* The f-strings "Column fix: '{col}' → '{close_match[0]}'" and
\* "Warning: Column '{col}' not found and no close match available".
ColumnFixEntry(col, match) ==
    <<"Column fix: ", "'">> \o col \o <<"'", " → ", "'">> \o Lex(match) \o <<"'">>

WarningEntry(col) ==
    <<"Warning: Column ", "'">> \o col
        \o <<"'", " not found and no close match available">>

\* The characters that may follow a backslash in the replacement template of
\* re.sub: the escapes it knows, group references and the backslash itself.
TemplateEscapes ==
    {"a", "b", "f", "n", "r", "t", "v", "g", "\\",
     "0", "1", "2", "3", "4", "5", "6", "7", "8", "9"}

\* re.sub raises re.error (bad escape) for the replacement template repl: a
\* backslash in it is followed by a character that is no escape.
BadEscape(repl) ==
    \E i \in 1..Len(repl) - 1 :
        repl[i] = "\\" /\ Head(Spell(repl[i + 1])) \notin TemplateEscapes

\* The f-string f"df['{close_match[0]}']", the replacement template.
RefTemplate(match) == <<"df", "[", "'">> \o Lex(match) \o <<"'", "]">>

\* The loop over matches from entry k on; raised is the exception that ends
\* it, if any.
RECURSIVE ColumnsLoop(_, _, _, _, _)
ColumnsLoop(t, matches, fixed_code, corrections, k) ==
    IF k > Len(matches)
    THEN [code |-> fixed_code, corrections |-> corrections, raised |-> None]
    ELSE LET col == matches[k]
             close_match == get_close_matches(col, Columns(t))
         IN  IF InColumns(t, col)
             THEN ColumnsLoop(t, matches, fixed_code, corrections, k + 1)
             ELSE IF close_match # <<>>
             THEN IF BadEscape(RefTemplate(close_match[1]))
                  THEN [code |-> fixed_code, corrections |-> corrections,
                        raised |-> Some(<<"re.error", "bad escape">>)]
                  ELSE ColumnsLoop(t, matches,
                          SubColumnRef(fixed_code, 1, col,
                                       RefTemplate(close_match[1])),
                          Append(corrections, ColumnFixEntry(col, close_match[1])),
                          k + 1)
             ELSE ColumnsLoop(t, matches, fixed_code,
                     Append(corrections, WarningEntry(col)), k + 1)

\* autopep8.fix_code(text, options={'aggressive': 1}) of the library, as far
\* as the texts of the model go: white space at the end of the text is
\* removed and the last line is ended by one line break.
RECURSIVE StripEnd(_)
StripEnd(text) ==
    IF text # <<>> /\ IsSpace(text[Len(text)])
    THEN StripEnd(SubSeq(text, 1, Len(text) - 1))
    ELSE text

autopep8_fix_code(text) ==
    IF StripEnd(text) = <<>> THEN <<>> ELSE StripEnd(text) \o <<"\n">>

\* The column references of the code after the replacements, checked against
\* the columns of table t (the loop over matches and what precedes it).
FixColumns(replaced, t) ==
    ColumnsLoop(t, FindColumnRefs(replaced.code, 1), replaced.code,
                replaced.corrections, 1)

\* The try block around autopep8.fix_code; format_fails says whether it raises.
AutoFormat(fixed, format_fails) ==
    IF fixed.raised # None THEN fixed
    ELSE IF format_fails
    THEN [code |-> fixed.code,
          corrections |-> Append(fixed.corrections,
                                 <<"Auto-formatting failed: ", "str(e)">>),
          raised |-> None]
    ELSE [code |-> autopep8_fix_code(fixed.code),
          corrections |-> Append(fixed.corrections,
                                 <<"Code auto-formatted with autopep8">>),
          raised |-> None]

\* auto_fix_plot_code(code) on a VisualizationUtils holding table t: the pair
\* (fixed_code, corrections) it returns, or the exception it raises (raised;
\* the pair is then what it had built so far).
auto_fix_plot_code(code, t, format_fails) ==
    AutoFormat(FixColumns(ReplacementsLoop(code, <<>>, 1), t), format_fails)

----------------------------------------------------------------------------
(* exec(fixed_code, safe_globals): the statements the texts of the model   *)
(* are made of, run in order against the table bound to df and the current *)
(* pyplot figure.  The run stops at the first statement that raises.       *)

\* The lines of a text.
RECURSIVE SplitLines(_, _)
SplitLines(text, line) ==
    IF text = <<>> THEN <<line>>
    ELSE IF Head(text) = "\n" THEN <<line>> \o SplitLines(Tail(text), <<>>)
    ELSE SplitLines(Tail(text), Append(line, Head(text)))

\* The column name a text spells.
NameOf(text) ==
    CASE text = <<"sum", "(", "xG", ")">> -> "sum(xG)"
      [] text = <<"sum", " ", "(", "xG", ")">> -> "sum (xG)"
      [] text = <<>> -> ""
      [] OTHER -> text[1]

\* The statement is the expression df['name'].
IsRead(st) ==
    Len(st) >= 5 /\ RefOpensAt(st, 1) /\ GroupEnd(st, 4) = Len(st) - 1

\* The statement is the assignment df['name'] = 0.
IsWrite(st) ==
    /\ Len(st) >= 10
    /\ SubSeq(st, Len(st) - 3, Len(st)) = <<" ", "=", " ", "0">>
    /\ IsRead(SubSeq(st, 1, Len(st) - 4))

NRows(t) == IF t = <<>> THEN 0 ELSE Len(t[1].vals)

\* The keys of the dictionary execute_code_safely passes to exec as globals.
safe_globals == {"plt", "df", "Pitch", "np", "pd"}

\* Names of the builtins module that the statements of the model use.
builtins == {"SystemExit", "len"}

\* The names a lookup in the globals g of an exec finds: exec inserts a
\* reference to the builtins module under '__builtins__' when g has no such
\* key, and a name that is not a key of g is then looked up there.
Visible(g) ==
    IF "__builtins__" \in g THEN g ELSE g \cup {"__builtins__"} \cup builtins

\* The name a statement looks up first: the lexeme after 'raise ', or the
\* first lexeme.
NameIn(st) ==
    IF Len(st) >= 3 /\ SubSeq(st, 1, 2) = <<"raise", " ">> THEN st[3] ELSE st[1]

\* The statement, its name found, run in environment env.
Run(st, env, call) ==
    CASE st = <<"plt", ".", "plot", "(", ")">> ->
           [env EXCEPT !.surface = Append(@, [drawn_by |-> call])]
      [] IsRead(st) ->
           IF InColumns(env.df, SubSeq(st, 4, Len(st) - 2)) THEN env
           ELSE [env EXCEPT !.error =
                    <<"KeyError", "'">> \o SubSeq(st, 4, Len(st) - 2) \o <<"'">>]
      [] IsWrite(st) ->
           [env EXCEPT !.df =
              SetColumn(@, NameOf(SubSeq(st, 4, Len(st) - 6)),
                        [dtype |-> "int64",
                         vals |-> [i \in 1..NRows(env.df) |-> "0"]])]
      [] st = <<"raise", " ", "SystemExit">> ->
           [env EXCEPT !.error = <<"SystemExit">>]
      [] st \in { <<"Pitch", "(", ")">>, <<"plt", ".", "show", "(", ")">>,
                  <<"len", "(", "df", ")">> } ->
           env
      [] OTHER ->
           [env EXCEPT !.error = <<"TypeError", "object is not callable">>]

\* One statement run in environment env = [df, surface, error, names]; call
\* is the number of the execute_code_safely call, which marks what it draws.
\* A statement whose name is not found raises NameError.
RunStatement(st, env, call) ==
    IF st = <<>> THEN env
    ELSE IF NameIn(st) \notin Visible(safe_globals)
    THEN [env EXCEPT !.error = <<"NameError", "name is not defined">>]
    ELSE Run(st, [env EXCEPT !.names = @ \cup {NameIn(st)}], call)

RECURSIVE RunLines(_, _, _, _)
RunLines(lines, k, env, call) ==
    IF k > Len(lines) \/ env.error # None THEN env
    ELSE RunLines(lines, k + 1, RunStatement(lines[k], env, call), call)

\* exec(text, {'plt': plt, 'df': self.df, ...}): df is the object self.df,
\* so what the statements assign to it is assigned to self.df.
exec(text, t, figure, call) ==
    RunLines(SplitLines(text, <<>>), 1,
             [df |-> t, surface |-> figure, error |-> None, names |-> {}], call)

----------------------------------------------------------------------------
(* VisualizationUtils.execute_code_safely *)

\* '; '.join(items)
RECURSIVE Join(_, _)
Join(sep, items) ==
    IF items = <<>> THEN <<>>
    ELSE IF Len(items) = 1 THEN items[1]
    ELSE items[1] \o <<sep>> \o Join(sep, Tail(items))

\* The return value on a safety rejection.
Blocked(safety_issues) ==
    [success |-> FALSE,
     message |-> <<"Code blocked for security reasons: ">>
                    \o Join("; ", safety_issues),
     image |-> None]

\* The return value of the except branch, for the exception raised.
Failed(error) ==
    [success |-> FALSE,
     message |-> <<"Execution error: ">> \o Tail(error)
                    \o <<"\nTraceback: ", "Traceback (most recent call last):\n">>
                    \o error,
     image |-> None]

\* The return value of the try block, with the figure savefig captures.
Succeeded(corrections, figure) ==
    [success |-> TRUE,
     message |-> <<"Code executed successfully. Corrections made: ",
                   ToString(Len(corrections))>>,
     image |-> Some(figure)]

\* isinstance(e, Exception) for what exec raised: SystemExit, KeyboardInterrupt
\* and GeneratorExit derive from BaseException only.
IsException(error) ==
    Head(error) \notin {"SystemExit", "KeyboardInterrupt", "GeneratorExit"}

\* The try statement, exec having run: savefig and plt.clf() when nothing was
\* raised; the except Exception branch, which leaves the figure as it is, when
\* an Exception was raised; anything else that was raised propagates to the
\* caller and nothing is returned.
AfterExec(fix, run) ==
    IF run.error = None
    THEN [result |-> Succeeded(fix.corrections, run.surface),
          log |-> fix.corrections, executed |-> Some(fix.code),
          df |-> run.df, surface |-> <<>>, raised |-> None, names |-> run.names]
    ELSE IF IsException(run.error)
    THEN [result |-> Failed(run.error),
          log |-> fix.corrections, executed |-> Some(fix.code),
          df |-> run.df, surface |-> run.surface, raised |-> None,
          names |-> run.names]
    ELSE [result |-> None,
          log |-> fix.corrections, executed |-> Some(fix.code),
          df |-> run.df, surface |-> run.surface, raised |-> Some(run.error),
          names |-> run.names]

\* A variant that logs the corrections of a call twice.
LogAndRun_twice(fix, t, figure, call) ==
    IF fix.raised # None
    THEN [result |-> None, log |-> <<>>, executed |-> None, df |-> t,
          surface |-> figure, raised |-> fix.raised, names |-> {}]
    ELSE [AfterExec(fix, exec(fix.code, t, figure, call))
             EXCEPT !.log = fix.corrections \o fix.corrections]

\* The corrections are logged and the fixed code is executed; what
\* auto_fix_plot_code raises propagates, the call being outside the try.
LogAndRun(fix, t, figure, call) ==
    IF fix.raised # None
    THEN [result |-> None, log |-> <<>>, executed |-> None, df |-> t,
          surface |-> figure, raised |-> fix.raised, names |-> {}]
    ELSE AfterExec(fix, exec(fix.code, t, figure, call))

\* execute_code_safely(code) on a VisualizationUtils holding table t, with
\* the current figure of pyplot: the tuple it returns (result), the entries
\* it appends to corrections_log (log), the text it passes to exec
\* (executed, None when exec is not called), and self.df and the figure
\* afterwards.
execute_code_safely_fixfirst(code, t, figure, call, format_fails) ==
    LET safety == check_code_safety(code)
    IN  IF ~safety.safe
        THEN [result |-> Blocked(safety.issues),
              log |-> auto_fix_plot_code(code, t, format_fails).corrections,
              executed |-> None, df |-> t, surface |-> figure, raised |-> None,
              names |-> {}]
        ELSE LogAndRun(auto_fix_plot_code(code, t, format_fails), t, figure, call)

execute_code_safely(code, t, figure, call, format_fails) ==
    LET safety == check_code_safety(code)
    IN  IF ~safety.safe
        THEN [result |-> Blocked(safety.issues), log |-> <<>>,
              executed |-> None, df |-> t, surface |-> figure, raised |-> None,
              names |-> {}]
        ELSE LogAndRun(auto_fix_plot_code(code, t, format_fails), t, figure, call)

----------------------------------------------------------------------------
(* Claims about normalize_columns, checked under SpecNorm. *)

Normalized == The(df_normalized)

Added == SubSeq(Normalized, Len(df) + 1, Len(Normalized))

\* The entries of the alias map whose alias is a column of t while the
\* canonical name is not.
Applicable(t) ==
    {k \in 1..Len(COLUMN_ALIASES) :
        HasCol(t, COLUMN_ALIASES[k][1]) /\ ~HasCol(t, COLUMN_ALIASES[k][2])}

\* C1: normalizing the result of normalize_columns again yields the same
\* table: the same columns, in the same order, with the same values.
C1_NormalizeIdempotent ==
    renormalized # None => The(renormalized).df = Normalized

C1_Witness ==
    /\ renormalized # None
    /\ Len(Normalized) > Len(df)

\* C2: every column of the input table is a column of the normalized table
\* with unchanged values; in particular a canonical column of the input
\* keeps its values when aliases of it are present too.
C2_NormalizeKeepsColumns ==
    df_normalized # None =>
        \A i \in 1..Len(df) :
            /\ HasCol(Normalized, df[i].name)
            /\ Col(Normalized, df[i].name) = df[i]

C2_Witness ==
    /\ df_normalized # None
    /\ HasCol(df, "Team") /\ HasCol(df, "Squad")
    /\ Col(df, "Team").vals # Col(df, "Squad").vals

\* C3 as claimed: for every (alias, canonical) pair whose alias is a column
\* of the input while canonical is not, the output has a column canonical
\* with the values of the alias column.
C3_EveryAliasCopied ==
    df_normalized # None =>
        \A k \in Applicable(df) :
            /\ HasCol(Normalized, COLUMN_ALIASES[k][2])
            /\ Col(Normalized, COLUMN_ALIASES[k][2]).vals
                 = Col(df, COLUMN_ALIASES[k][1]).vals

\* C3 as amended: for every such pair the output has a column canonical,
\* and its values are those of the first alias of canonical, in alias-map
\* order, that is a column of the input.
C3_FirstAliasCopied ==
    df_normalized # None =>
        \A k \in Applicable(df) :
            LET canonical == COLUMN_ALIASES[k][2]
                first == CHOOSE j \in Applicable(df) :
                            /\ COLUMN_ALIASES[j][2] = canonical
                            /\ \A i \in Applicable(df) :
                                  COLUMN_ALIASES[i][2] = canonical => j <= i
            IN  /\ HasCol(Normalized, canonical)
                /\ Col(Normalized, canonical).vals
                     = Col(df, COLUMN_ALIASES[first][1]).vals

C3_Witness ==
    /\ df_normalized # None
    /\ HasCol(df, "Squad") /\ HasCol(df, "Squad Name") /\ ~HasCol(df, "Team")
    /\ Col(df, "Squad").vals # Col(df, "Squad Name").vals
    /\ HasCol(Normalized, "Team")

\* C4 as claimed: the table normalize_columns produces is the same for
\* every order of the alias-map entries.
C4_OrderIndependent ==
    reordered # None => The(reordered).df = Normalized

\* All aliases of one absent canonical name that are columns of t carry the
\* same data.
SingleSourced(t) ==
    \A j, k \in Applicable(t) :
        COLUMN_ALIASES[j][2] = COLUMN_ALIASES[k][2] =>
            /\ Col(t, COLUMN_ALIASES[j][1]).vals = Col(t, COLUMN_ALIASES[k][1]).vals
            /\ Col(t, COLUMN_ALIASES[j][1]).dtype = Col(t, COLUMN_ALIASES[k][1]).dtype

\* C4 as amended: for every order of the alias-map entries the result has
\* the same set of column names and keeps the input columns in place; every
\* column holds the same values in both results when all present aliases of
\* each absent canonical name carry the same values.  The order of the added
\* columns may differ.
C4_OrderIndependentColumns ==
    reordered # None =>
        LET other == The(reordered).df
        IN  /\ Columns(other) = Columns(Normalized)
            /\ SubSeq(other, 1, Len(df)) = SubSeq(Normalized, 1, Len(df))
            /\ SingleSourced(df) =>
                  \A c \in Columns(Normalized) : Col(other, c) = Col(Normalized, c)

C4_Witness ==
    /\ reordered # None
    /\ SingleSourced(df)
    /\ Len(Normalized) = Len(df) + 2
    /\ The(reordered).df # Normalized

\* The table of the end-to-end scenario: raw column "Squad Name", no "Team"
\* column and no alias of Team that precedes "Squad Name" in the alias map.
SquadNameScenario ==
    /\ df_normalized # None
    /\ HasCol(df, "Squad Name")
    /\ ~HasCol(df, "Team") /\ ~HasCol(df, "Squad") /\ ~HasCol(df, "Team Name")

Occurrences(s, x) == Cardinality({i \in 1..Len(s) : s[i] = x})

\* C5 as claimed: in the scenario the log contains the entry
\* Column mapping: "Squad Name" → "Team" as the specification writes it,
\* with double quotes.
C5_ScenarioEntryAsWritten ==
    SquadNameScenario =>
        <<"Column mapping: ", "\"", "Squad Name", "\"", " → ", "\"", "Team", "\"">>
            \in Range(corrections_log)

\* C5 as amended: normalize_columns appends one entry per column it adds,
\* in the order it adds them, naming an alias present in the input and the
\* added canonical name, and nothing else; in the scenario the output has
\* "Squad Name" and "Team" with identical values and the log holds exactly
\* once the entry Column mapping: 'Squad Name' → 'Team', with single quotes.
C5_OneEntryPerMapping ==
    /\ df_normalized # None =>
          /\ Len(corrections_log) = Len(Added)
          /\ \A i \in 1..Len(Added) :
                \E k \in Applicable(df) :
                    /\ COLUMN_ALIASES[k][2] = Added[i].name
                    /\ corrections_log[i] =
                         <<"Column mapping: ", "'", COLUMN_ALIASES[k][1], "'",
                           " → ", "'", Added[i].name, "'">>
    /\ SquadNameScenario =>
          /\ HasCol(Normalized, "Squad Name") /\ HasCol(Normalized, "Team")
          /\ Col(Normalized, "Team").vals = Col(Normalized, "Squad Name").vals
          /\ Col(Normalized, "Squad Name") = Col(df, "Squad Name")
          /\ Occurrences(corrections_log,
                <<"Column mapping: ", "'", "Squad Name", "'", " → ", "'", "Team", "'">>) = 1

C5_Witness ==
    /\ SquadNameScenario
    /\ Len(corrections_log) = 2

----------------------------------------------------------------------------
(* DataValidator.sanitize_dataframe *)

sensitive_columns == <<"password", "token", "key", "secret", "id", "email">>

\* The football-related IDs that are kept, as characters.
kept_ids ==
    { Chars(<<"player", " ", "id">>), Chars(<<"team", " ", "id">>),
      Chars(<<"match", " ", "id">>) }

\* col.lower(), as characters.
LowerName(name) ==
    LET chars == Chars(Lex(name)) IN [i \in 1..Len(chars) |-> LowerChar(chars[i])]

\* The test that puts col into columns_to_remove.
IsRemoved(name) ==
    /\ \E k \in 1..Len(sensitive_columns) :
          Contains(LowerName(name), Spell(sensitive_columns[k]))
    /\ LowerName(name) \notin kept_ids

\* str(x).strip() of a cell: a missing cell becomes the string nan.
StrStrip(x) ==
    CASE x = Null -> "nan"
      [] x = " Bob " -> "Bob"
      [] x = "Ann " -> "Ann"
      [] OTHER -> x

RECURSIVE DropRemoved(_)
DropRemoved(t) ==
    IF t = <<>> THEN <<>>
    ELSE IF IsRemoved(Head(t).name) THEN DropRemoved(Tail(t))
    ELSE <<Head(t)>> \o DropRemoved(Tail(t))

\* sanitize_dataframe(df): a new table; df is not touched.
sanitize_dataframe(t) ==
    LET kept == DropRemoved(t)
    IN  [i \in 1..Len(kept) |->
            IF kept[i].dtype = "object"
            THEN [kept[i] EXCEPT !.vals = [j \in 1..Len(@) |-> StrStrip(@[j])]]
            ELSE kept[i]]

----------------------------------------------------------------------------
(* VisualizationUtils.get_available_columns_info *)

SampleSize == 3

\* dropna(): the cells that are not missing.
RECURSIVE DropNa(_)
DropNa(vals) ==
    IF vals = <<>> THEN <<>>
    ELSE IF Head(vals) = Null THEN DropNa(Tail(vals))
    ELSE <<Head(vals)>> \o DropNa(Tail(vals))

\* head(n)
FirstN(vals, n) == SubSeq(vals, 1, IF Len(vals) < n THEN Len(vals) ELSE n)

\* The f-string "- {col} ({dtype}): {sample_values}" of one column.
ColumnInfoLine(c) ==
    LET sample_values == FirstN(DropNa(c.vals), SampleSize)
        quoted == [i \in 1..Len(sample_values) |->
                    IF c.dtype = "object" THEN <<"'", sample_values[i], "'">>
                    ELSE <<sample_values[i]>>]
    IN  <<"- ", c.name, " (", c.dtype, "): ", "[">> \o Join(", ", quoted) \o <<"]">>

\* get_available_columns_info() on a VisualizationUtils holding table t.
get_available_columns_info(t) ==
    Join("\n", [i \in 1..Len(t) |-> ColumnInfoLine(t[i])])

----------------------------------------------------------------------------
(* Code blocks: lines of generated code, joined by line breaks. *)

plot_stmt == <<"plt", ".", "plot", "(", ")">>

len_stmt == <<"len", "(", "df", ")">>

IMPORT_stmt == <<"IMPORT", " ", " ", "OS">>

mplsoccer_stmt == <<"mplsoccer", "(", ")">>

exit_stmt == <<"raise", " ", "SystemExit">>

show_stmt == <<"plt", ".", "show", "(", ")", "(", ")">>

Ref(quote, name) == <<"df", "[", quote>> \o Lex(name) \o <<quote, "]">>

Assign(name) == Ref("'", name) \o <<" ", "=", " ", "0">>

\* The table handed to VisualizationUtils in a session.
SessionTables ==
    { << [name |-> "Squad", dtype |-> "object", vals |-> <<"Ajax", Null>>],
         [name |-> "Player", dtype |-> "object", vals |-> <<"Ann ", " Bob ">>],
         [name |-> "sum(xG)", dtype |-> "float64", vals |-> <<"0.5", "1.5">>] >>,
      << [name |-> "Player", dtype |-> "object", vals |-> <<"Ann ", " Bob ">>],
         [name |-> "Team", dtype |-> "object", vals |-> <<"Ajax", "PSV">>] >> }

\* The code blocks a session is asked to execute.
SessionBlocks ==
    { plot_stmt,
      plot_stmt \o <<"\n">> \o Ref("'", "zzz"),
      Assign("New"),
      IMPORT_stmt \o <<"\n">> \o len_stmt,
      Ref("'", "sum (xG)") \o <<"\n">> \o plot_stmt,
      mplsoccer_stmt \o <<"\n">> \o Ref("\"", "Players"),
      plot_stmt \o <<"\n">> \o exit_stmt }

----------------------------------------------------------------------------
(* The session specification: a table is handed to VisualizationUtils; the *)
(* caller normalizes it, sanitizes it, asks for the column info and has    *)
(* code blocks executed, in any order.                                     *)

MaxCalls == 2

Init ==
    /\ df \in SessionTables
    /\ df_source = df
    /\ corrections_log = <<>>
    /\ df_normalized = None
    /\ renormalized = None
    /\ reordered = None
    /\ surface = <<>>
    /\ calls = 0
    /\ code_block = <<>>
    /\ returned = None
    /\ executed = None
    /\ raised = None
    /\ resolved = {}
    /\ NoPipeline
    /\ op = "init"

Sanitize ==
    /\ returned' = sanitize_dataframe(df)
    /\ op' = "sanitize_dataframe"
    /\ UNCHANGED <<df, df_source, corrections_log, df_normalized, renormalized,
                   reordered, surface, calls, code_block, executed, raised,
                   resolved, appVars>>

ColumnsInfo ==
    /\ returned' = get_available_columns_info(df)
    /\ op' = "get_available_columns_info"
    /\ UNCHANGED <<df, df_source, corrections_log, df_normalized, renormalized,
                   reordered, surface, calls, code_block, executed, raised,
                   resolved, appVars>>

Execute ==
    /\ calls < MaxCalls
    /\ \E block \in SessionBlocks, format_fails \in BOOLEAN :
          \E r \in {execute_code_safely(block, df, surface, calls + 1, format_fails)} :
              /\ code_block' = block
              /\ returned' = r.result
              /\ corrections_log' = corrections_log \o r.log
              /\ executed' = r.executed
              /\ raised' = r.raised
              /\ resolved' = r.names
              /\ df' = r.df
              /\ surface' = r.surface
    /\ calls' = calls + 1
    /\ op' = "execute_code_safely"
    /\ UNCHANGED <<df_source, df_normalized, renormalized, reordered, appVars>>

Next ==
    \/ Normalize
    \/ Sanitize
    \/ ColumnsInfo
    \/ Execute

Spec == Init /\ [][Next]_vars

----------------------------------------------------------------------------
(* The gate specification: check_code_safety and auto_fix_plot_code applied *)
(* to a code block of up to MaxLines lines, on a VisualizationUtils that    *)
(* holds one of the session tables.                                         *)

MaxLines == 2

GateLines ==
    { plot_stmt, len_stmt, IMPORT_stmt, mplsoccer_stmt,
      show_stmt, Ref("'", "Players"), Ref("\"", "zzz"), Ref("'", "sum (xG)"),
      Ref("'", "Goals Assists"), <<"open", " ", "(", ")">>,
      show_stmt \o <<"(", ")">> }

RECURSIVE BlocksOf(_)
BlocksOf(n) ==
    IF n = 0 THEN {<<>>}
    ELSE LET shorter == BlocksOf(n - 1)
         IN  shorter \cup GateLines
                \cup {b \o <<"\n">> \o l : b \in shorter \ {<<>>}, l \in GateLines}

\* The tables of the gate specification: the session tables and one with a
\* backslash in a column name.
GateTables ==
    SessionTables \cup
    { << [name |-> "Goals\\Assists", dtype |-> "int64", vals |-> <<"3", "1">>],
         [name |-> "Team", dtype |-> "object", vals |-> <<"Ajax", "PSV">>] >> }

InitGate ==
    /\ df \in GateTables
    /\ df_source = df
    /\ corrections_log = <<>>
    /\ df_normalized = None
    /\ renormalized = None
    /\ reordered = None
    /\ surface = <<>>
    /\ calls = 0
    /\ code_block \in BlocksOf(MaxLines)
    /\ returned = None
    /\ executed = None
    /\ raised = None
    /\ resolved = {}
    /\ NoPipeline
    /\ op = "init"

CheckCodeSafety ==
    /\ returned' = check_code_safety(code_block)
    /\ op' = "check_code_safety"
    /\ UNCHANGED <<df, df_source, corrections_log, df_normalized, renormalized,
                   reordered, surface, calls, code_block, executed, raised,
                   resolved, appVars>>

AutoFix ==
    /\ \E format_fails \in BOOLEAN :
          \E fix \in {auto_fix_plot_code(code_block, df, format_fails)} :
              /\ returned' = IF fix.raised # None THEN None
                             ELSE [code |-> fix.code,
                                   corrections |-> fix.corrections]
              /\ raised' = fix.raised
    /\ op' = "auto_fix_plot_code"
    /\ UNCHANGED <<df, df_source, corrections_log, df_normalized, renormalized,
                   reordered, surface, calls, code_block, executed, resolved,
                   appVars>>

NextGate == CheckCodeSafety \/ AutoFix

SpecGate == InitGate /\ [][NextGate]_vars

----------------------------------------------------------------------------
(* The correction log of a session: a VisualizationUtils is built on a     *)
(* table of which two columns have an alias; the caller normalizes it, has *)
(* code blocks executed and has the block last executed repaired on its    *)
(* own, in any order.                                                      *)

LogTable ==
    << [name |-> "Squad", dtype |-> "object", vals |-> <<"Ajax", Null>>],
       [name |-> "Name", dtype |-> "object", vals |-> <<"Ann ", " Bob ">>],
       [name |-> "sum(xG)", dtype |-> "float64", vals |-> <<"0.5", "1.5">>] >>

InitLog ==
    /\ df = LogTable
    /\ df_source = df
    /\ corrections_log = <<>>
    /\ df_normalized = None
    /\ renormalized = None
    /\ reordered = None
    /\ surface = <<>>
    /\ calls = 0
    /\ code_block = <<>>
    /\ returned = None
    /\ executed = None
    /\ raised = None
    /\ resolved = {}
    /\ NoPipeline
    /\ op = "init"

NextLog == Normalize \/ Execute \/ AutoFix

SpecLog == InitLog /\ [][NextLog]_vars

----------------------------------------------------------------------------
(* Concurrent calls of execute_code_safely in one process, as when several *)
(* sessions are served by one interpreter: each call has passed the gate   *)
(* and the repair and runs its try block (exec, savefig, plt.clf()) on     *)
(* pyplot's current figure, which all calls share.  A call is suspended    *)
(* between any two statements.                                             *)

\* The threads that call execute_code_safely.
Callers == {"a", "b"}

ConcTable ==
    << [name |-> "Player", dtype |-> "object", vals |-> <<"Ann ", " Bob ">>],
       [name |-> "Team", dtype |-> "object", vals |-> <<"Ajax", "PSV">>] >>

\* The repaired code blocks the calls execute.
ConcBlocks ==
    { plot_stmt,
      plot_stmt \o <<"\n">> \o plot_stmt,
      plot_stmt \o <<"\n">> \o Ref("'", "zzz") }

\* A call about to enter its try block with the fixed code.
Entering(fixed_code) ==
    [lines |-> SplitLines(fixed_code, <<>>), k |-> 1, at |-> "exec",
     error |-> None, image |-> None, result |-> None]

InitConc ==
    /\ df = ConcTable
    /\ df_source = df
    /\ corrections_log = <<>>
    /\ df_normalized = None
    /\ renormalized = None
    /\ reordered = None
    /\ surface = <<>>
    /\ calls = 0
    /\ code_block = <<>>
    /\ returned = None
    /\ executed = None
    /\ raised = None
    /\ resolved = {}
    /\ invocations \in [Callers -> {Entering(b) : b \in ConcBlocks}]
    /\ full_response = <<>>
    /\ api_key = None
    /\ uploaded_file = None
    /\ report_type = "Match Report"
    /\ remote = None
    /\ prompts = None
    /\ pc = "idle"
    /\ requests = 0
    /\ received = 0
    /\ shown = <<>>
    /\ is_valid = None
    /\ is_valid_for_report = None
    /\ sent = None
    /\ op = "init"

\* exec(fixed_code, safe_globals), one statement of it: what it draws goes
\* to the current figure; an exception takes the call to its except branch.
ExecLine(c) ==
    /\ invocations[c].at = "exec"
    /\ \E run \in {RunStatement(invocations[c].lines[invocations[c].k],
                                [df |-> df, surface |-> surface,
                                 error |-> None, names |-> {}], c)} :
          /\ surface' = run.surface
          /\ df' = run.df
          /\ invocations' =
                [invocations EXCEPT
                   ![c].error = run.error,
                   ![c].k = @ + 1,
                   ![c].at = IF run.error # None THEN "except"
                             ELSE IF invocations[c].k = Len(invocations[c].lines)
                             THEN "savefig"
                             ELSE "exec"]
    /\ op' = "exec"
    /\ UNCHANGED <<df_source, corrections_log, df_normalized, renormalized,
                   reordered, calls, code_block, returned, executed, raised,
                   resolved, full_response, api_key, uploaded_file, report_type, remote, prompts, pc,
                   requests, received, shown, is_valid, is_valid_for_report, sent>>

\* plt.savefig(buffer, ...): the buffer receives the current figure.
Savefig(c) ==
    /\ invocations[c].at = "savefig"
    /\ invocations' = [invocations EXCEPT ![c].image = Some(surface),
                                          ![c].at = "clf"]
    /\ op' = "savefig"
    /\ UNCHANGED <<df, df_source, corrections_log, df_normalized, renormalized,
                   reordered, execVars, full_response, api_key, uploaded_file, report_type, remote, prompts, pc,
                   requests, received, shown, is_valid, is_valid_for_report, sent>>

\* plt.clf() and the return of the success tuple with the buffer.
Clf(c) ==
    /\ invocations[c].at = "clf"
    /\ surface' = <<>>
    /\ invocations' =
          [invocations EXCEPT
             ![c].result = Some(Succeeded(<<>>, The(invocations[c].image))),
             ![c].at = "returned"]
    /\ op' = "clf"
    /\ UNCHANGED <<df, df_source, corrections_log, df_normalized, renormalized,
                   reordered, calls, code_block, returned, executed, raised,
                   resolved, full_response, api_key, uploaded_file, report_type, remote, prompts, pc,
                   requests, received, shown, is_valid, is_valid_for_report, sent>>

\* The except branch: the failure tuple is returned, the figure is left.
Except(c) ==
    /\ invocations[c].at = "except"
    /\ invocations' =
          [invocations EXCEPT
             ![c].result = Some(Failed(invocations[c].error)),
             ![c].at = "returned"]
    /\ op' = "except"
    /\ UNCHANGED <<df, df_source, corrections_log, df_normalized, renormalized,
                   reordered, execVars, full_response, api_key, uploaded_file, report_type, remote, prompts, pc,
                   requests, received, shown, is_valid, is_valid_for_report, sent>>

NextConc ==
    \E c \in Callers : ExecLine(c) \/ Savefig(c) \/ Clf(c) \/ Except(c)

SpecConc == InitConc /\ [][NextConc]_vars

----------------------------------------------------------------------------
(* VisualizationUtils.extract_code_blocks and the part of generate_report  *)
(* that shows a generated response.  A response is a text of lexemes: the  *)
(* marker line, a fence, a language tag, words and white space.            *)

marker == "## SUGGESTED VISUALIZATIONS"

\* The lexeme of three backquotes that opens or closes a fenced block.
fence == "<fence>"

\* text.find(marker): the position of the first occurrence, 0 for -1.
find(text, sub) ==
    IF \E i \in 1..Len(text) : text[i] = sub
    THEN CHOOSE i \in 1..Len(text) :
            text[i] = sub /\ \A j \in 1..(i - 1) : text[j] # sub
    ELSE 0

\* The position of the first fence from position i on, 0 when there is none.
NextFence(text, i) ==
    IF \E j \in i..Len(text) : text[j] = fence
    THEN CHOOSE j \in i..Len(text) :
            text[j] = fence /\ \A h \in i..(j - 1) : text[h] # fence
    ELSE 0

\* re.findall of the pattern fence, python, (.*?), fence with re.DOTALL from
\* position i on: the group of each match, the matches being found from left to right, each as
\* short as possible, and the search going on behind the match.
RECURSIVE findall_python(_, _)
findall_python(text, i) ==
    IF i + 1 > Len(text) THEN <<>>
    ELSE IF text[i] = fence /\ text[i + 1] = "python"
              /\ NextFence(text, i + 2) # 0
    THEN <<SubSeq(text, i + 2, NextFence(text, i + 2) - 1)>>
            \o findall_python(text, NextFence(text, i + 2) + 1)
    ELSE findall_python(text, i + 1)

\* block.strip()
RECURSIVE strip(_)
strip(block) ==
    IF block = <<>> THEN <<>>
    ELSE IF IsSpace(Head(block)) THEN strip(Tail(block))
    ELSE IF IsSpace(block[Len(block)]) THEN strip(SubSeq(block, 1, Len(block) - 1))
    ELSE block

\* [block.strip() for block in code_blocks if block.strip()]
StripAll(code_blocks) ==
    SelectSeq([i \in 1..Len(code_blocks) |-> strip(code_blocks[i])],
              LAMBDA b : b # <<>>)

\* A variant that searches the whole text whether or not it has the marker.
extract_code_blocks_whole(text) ==
    StripAll(findall_python(text, 1))

\* extract_code_blocks(text)
extract_code_blocks(text) ==
    IF find(text, marker) = 0
    THEN StripAll(findall_python(text, 1))
    ELSE StripAll(findall_python(SubSeq(text, find(text, marker), Len(text)), 1))

\* re.sub with the empty replacement from position i on: of the pattern
\* for a python-tagged fenced region when tagged, and of the pattern for any
\* fenced region otherwise.
RECURSIVE RemoveFenced(_, _, _)
RemoveFenced(text, i, tagged) ==
    IF i > Len(text) THEN <<>>
    ELSE IF /\ text[i] = fence
            /\ tagged => (i + 1 <= Len(text) /\ text[i + 1] = "python")
            /\ NextFence(text, IF tagged THEN i + 2 ELSE i + 1) # 0
    THEN RemoveFenced(text,
                      NextFence(text, IF tagged THEN i + 2 ELSE i + 1) + 1,
                      tagged)
    ELSE <<text[i]>> \o RemoveFenced(text, i + 1, tagged)

\* A variant that takes a response without the marker as its own
\* visualization section.
SplitAtMarker_whole(text) ==
    IF find(text, marker) # 0
    THEN [report_text |-> SubSeq(text, 1, find(text, marker) - 1),
          viz_section |-> SubSeq(text, find(text, marker) + 1, Len(text))]
    ELSE [report_text |-> text, viz_section |-> text]

\* full_response.split(marker, 1) when the marker is in the response, and
\* (full_response, '') otherwise.
SplitAtMarker(text) ==
    IF find(text, marker) # 0
    THEN [report_text |-> SubSeq(text, 1, find(text, marker) - 1),
          viz_section |-> SubSeq(text, find(text, marker) + 1, Len(text))]
    ELSE [report_text |-> text, viz_section |-> <<>>]

\* A variant that removes the python-tagged fenced regions only.
Display_pythononly(parts, visuals_enabled) ==
    [report_text_clean |-> RemoveFenced(parts.report_text, 1, TRUE),
     code_blocks |->
        IF visuals_enabled
        THEN Some(extract_code_blocks(<<marker>> \o parts.viz_section))
        ELSE None]

\* What generate_report displays for a response: the report without its
\* fenced regions and, when visualizations are enabled, the code blocks
\* (None when they are disabled).
Display(parts, visuals_enabled) ==
    [report_text_clean |->
        RemoveFenced(RemoveFenced(parts.report_text, 1, TRUE), 1, FALSE),
     code_blocks |->
        IF visuals_enabled
        THEN Some(extract_code_blocks(<<marker>> \o parts.viz_section))
        ELSE None]

\* The parts a response is made of.
Prose == <<"Report", "\n">>

MarkerLine == <<marker, "\n">>

Bodies == { <<"X", "\n">>, <<" ", "Y", " ", "\n">>, <<" ", "\n">> }

Fenced(tag, body) == <<fence>> \o tag \o <<"\n">> \o body \o <<fence, "\n">>

Segments ==
    {Prose, MarkerLine}
       \cup {Fenced(tag, body) : tag \in {<<"python">>, <<"text">>, <<>>},
                                 body \in Bodies}

MaxSegments == 3

\* The responses of up to n parts.
RECURSIVE Responses(_)
Responses(n) ==
    IF n = 0 THEN {<<>>}
    ELSE Responses(n - 1)
            \cup {r \o seg : r \in Responses(n - 1), seg \in Segments}

InitReport ==
    /\ df = <<>>
    /\ df_source = <<>>
    /\ corrections_log = <<>>
    /\ df_normalized = None
    /\ renormalized = None
    /\ reordered = None
    /\ surface = <<>>
    /\ calls = 0
    /\ code_block = <<>>
    /\ returned = None
    /\ executed = None
    /\ raised = None
    /\ resolved = {}
    /\ invocations = <<>>
    /\ full_response \in Responses(MaxSegments)
    /\ api_key = None
    /\ uploaded_file = None
    /\ report_type = "Match Report"
    /\ remote = None
    /\ prompts = None
    /\ pc = "idle"
    /\ requests = 0
    /\ received = 0
    /\ shown = <<>>
    /\ is_valid = None
    /\ is_valid_for_report = None
    /\ sent = None
    /\ op = "init"

ExtractCodeBlocks ==
    /\ returned' = extract_code_blocks(full_response)
    /\ op' = "extract_code_blocks"
    /\ UNCHANGED <<df, df_source, corrections_log, df_normalized, renormalized,
                   reordered, surface, calls, code_block, executed, raised,
                   resolved, appVars>>

\* generate_report from the end of the stream on.
ShowReport ==
    /\ \E visuals_enabled \in BOOLEAN :
          returned' = Display(SplitAtMarker(full_response), visuals_enabled)
    /\ op' = "generate_report"
    /\ UNCHANGED <<df, df_source, corrections_log, df_normalized, renormalized,
                   reordered, surface, calls, code_block, executed, raised,
                   resolved, appVars>>

NextReport == ExtractCodeBlocks \/ ShowReport

SpecReport == InitReport /\ [][NextReport]_vars

----------------------------------------------------------------------------
(* The report pipeline of the improved app: one run of main() for an       *)
(* uploaded file and a report type, and, when the button is pressed,       *)
(* generate_report consuming OpenAIService.generate_report_stream.         *)

MAX_FILE_SIZE_MB == 50

\* config.DEFAULT_MODEL and config.TEMPERATURE, which OpenAIService copies to
\* self.model and self.temperature.  Temperatures are in tenths: 7 is 0.7.
DEFAULT_MODEL == "meta-llama/llama-3-70b-instruct"

TEMPERATURE == 7

ReportTypes == {"Player Report", "Match Report", "Opposition Report"}

\* REPORT_TYPES[report_type]["required_columns"]
required_columns(type) ==
    CASE type = "Player Report" -> <<"Player">>
      [] type = "Match Report" -> <<>>
      [] type = "Opposition Report" -> <<"Team">>

\* COLUMN_ALIASES of config.settings, which the validators use.
SETTINGS_COLUMN_ALIASES ==
    << <<"Squad", "Team">>,
       <<"Team Name", "Team">>,
       <<"Squad Name", "Team">>,
       <<"Club", "Team">>,
       <<"Club Name", "Team">>,
       <<"squadName", "Team">>,
       <<"Player Name", "Player">>,
       <<"Player_Name", "Player">>,
       <<"Name", "Player">>,
       <<"Full Name", "Player">>,
       <<"Position", "Pos">>,
       <<"Player Position", "Pos">>,
       <<"Role", "Pos">>,
       <<"X", "x">>,
       <<"Y", "y">>,
       <<"End X", "end_x">>,
       <<"End Y", "end_y">>,
       <<"Start X", "start_x">>,
       <<"Start Y", "start_y">>,
       <<"Event", "Event Type">>,
       <<"Action", "Event Type">>,
       <<"Type", "Event Type">>,
       <<"Match", "Match ID">>,
       <<"Game", "Match ID">>,
       <<"Fixture", "Match ID">> >>

\* aliases.get(name, name)
AliasGet(aliases, name) ==
    IF \E i \in 1..Len(aliases) : aliases[i][1] = name
    THEN aliases[CHOOSE i \in 1..Len(aliases) : aliases[i][1] = name][2]
    ELSE name

\* df.empty
IsEmpty(t) == Len(t) = 0 \/ NRows(t) = 0

\* DataValidator.validate_uploaded_file(uploaded_file).  An uploaded file is
\* None or [size_mb, suffix, content], content being the table pd.read_csv
\* returns or None when pd.read_csv raises.
validate_uploaded_file(file) ==
    IF file = None
    THEN [valid |-> FALSE, message |-> <<"No file uploaded">>, df |-> None]
    ELSE IF The(file).size_mb > MAX_FILE_SIZE_MB
    THEN [valid |-> FALSE,
          message |-> <<"File too large. Maximum size is ",
                        ToString(MAX_FILE_SIZE_MB), "MB">>,
          df |-> None]
    ELSE IF Lower(The(file).suffix) \notin {".csv"}
    THEN [valid |-> FALSE,
          message |-> <<"Unsupported file type. Please upload a CSV file.">>,
          df |-> None]
    ELSE IF The(file).content = None
    THEN [valid |-> FALSE, message |-> <<"Error reading file: ", "str(e)">>,
          df |-> None]
    ELSE IF IsEmpty(The(The(file).content))
    THEN [valid |-> FALSE, message |-> <<"File is empty">>, df |-> None]
    ELSE IF Len(The(The(file).content)) < 2
    THEN [valid |-> FALSE, message |-> <<"File must have at least 2 columns">>,
          df |-> None]
    ELSE [valid |-> TRUE, message |-> <<"File validated successfully">>,
          df |-> The(file).content]

\* The required columns no column of the table stands for.
MissingColumns(t, required) ==
    SelectSeq(required,
              LAMBDA col : \A i \in 1..Len(t) :
                              AliasGet(SETTINGS_COLUMN_ALIASES, t[i].name) # col)

\* df[col].isnull().sum() / len(df) * 100 > 50
MostlyNull(vals) == Occurrences(vals, Null) * 100 > 50 * Len(vals)

\* The data-quality warnings of one column.
QualityWarnings(column) ==
    (IF MostlyNull(column.vals)
     THEN << <<"Column '", column.name, "' has ", "null_percentage", "% null values">> >>
     ELSE <<>>)
    \o (IF Cardinality(Range(DropNa(column.vals))) = 1
        THEN << <<"Column '", column.name, "' has only one unique value">> >>
        ELSE <<>>)

RECURSIVE AllQualityWarnings(_, _)
AllQualityWarnings(t, k) ==
    IF k > Len(t) THEN <<>>
    ELSE QualityWarnings(t[k]) \o AllQualityWarnings(t, k + 1)

\* DataValidator.validate_dataframe_for_report(df, report_type)
validate_dataframe_for_report(t, type) ==
    IF type \notin ReportTypes
    THEN [valid |-> FALSE, warnings |-> << <<"Invalid report type: ", type>> >>]
    ELSE IF MissingColumns(t, required_columns(type)) # <<>>
    THEN [valid |-> FALSE,
          warnings |-> << <<"Missing required columns for ", type, ": ">>
                            \o Join(", ", [i \in 1..Len(MissingColumns(t, required_columns(type))) |->
                                             <<MissingColumns(t, required_columns(type))[i]>>]) >>]
    ELSE [valid |-> TRUE, warnings |-> AllQualityWarnings(t, 1)]

\* InputValidator.validate_api_key(), for the key found (None when there is
\* none).
validate_api_key(key) ==
    IF key = None
    THEN [valid |-> FALSE,
          message |-> <<"OpenRouter API key not found. Please set OPENROUTER_API_KEY in Streamlit secrets or as an environment variable.">>]
    ELSE IF The(key) = "short"
    THEN [valid |-> FALSE, message |-> <<"API key appears to be invalid (too short).">>]
    ELSE [valid |-> TRUE, message |-> <<"API key validated">>]

\* detect_file_type(df) of main.
detect_file_type(t) ==
    IF Columns(t) \cap {"Strengths", "Weaknesses", "Summary"} # {}
    THEN "scout_report"
    ELSE IF {Lower(c) : c \in Columns(t)} \cap {"x", "y", "end_x", "end_y", "Event Type"} # {}
    THEN "event_data"
    ELSE "unknown"

\* Whether main finds the column it selects the subject from; it stops when
\* a scout report has no such column.
SubjectColumnFound(t, type) ==
    IF detect_file_type(t) # "scout_report" THEN TRUE
    ELSE IF type = "Player Report"
    THEN \E c \in Columns(t) : Lower(c) \in {"player", "player name", "name"}
    ELSE IF type = "Opposition Report"
    THEN \E c \in Columns(t) : Lower(c) \in {"team", "team name", "squad", "club"}
    ELSE TRUE

\* The message of the stop for a scout report without such a column.
NoSubjectColumn(type) ==
    IF type = "Player Report"
    THEN <<"This scout report file does not contain a recognizable player name column. Please check your file.">>
    ELSE <<"This scout report file does not contain a recognizable team column. Please check your file.">>

\* df[mask]: the table with the rows whose number is in rows, in order.
RECURSIVE Pick(_, _, _)
Pick(vals, rows, r) ==
    IF r > Len(vals) THEN <<>>
    ELSE (IF r \in rows THEN <<vals[r]>> ELSE <<>>) \o Pick(vals, rows, r + 1)

RowsOf(t, rows) ==
    [i \in 1..Len(t) |-> [t[i] EXCEPT !.vals = Pick(@, rows, 1)]]

\* What st.sidebar.selectbox can return for df[col].dropna().unique() as
\* options: one of the options, or None when there is none.
Selections(t, col) ==
    IF Range(DropNa(Col(t, col).vals)) = {} THEN {Null}
    ELSE Range(DropNa(Col(t, col).vals))

\* get_subject_and_data(df, report_type), the user selecting the value
\* selected when a selectbox is shown.
get_subject_and_data(t, type, selected) ==
    IF type = "Player Report" /\ HasCol(t, "Player")
    THEN [subject |-> selected,
          data_to_send |->
             RowsOf(t, {r \in 1..NRows(t) : Col(t, "Player").vals[r] = selected})]
    ELSE IF type = "Opposition Report" /\ HasCol(t, "Team")
    THEN [subject |-> selected,
          data_to_send |->
             RowsOf(t, {r \in 1..NRows(t) : Col(t, "Team").vals[r] = selected})]
    ELSE [subject |-> "the match", data_to_send |-> t]

\* The first column of a scout report main recognizes as the player or the
\* team column, by its lower-cased name.
FirstColumnIn(t, names) ==
    t[CHOOSE i \in 1..Len(t) :
         /\ Lower(t[i].name) \in names
         /\ \A j \in 1..(i - 1) : Lower(t[j].name) \notin names].name

\* The column whose values main or get_subject_and_data offers in the
\* selectbox, if a selectbox is shown; main has found the column when the
\* file is a scout report.
SubjectColumn(t, type) ==
    IF type = "Player Report" /\ detect_file_type(t) = "scout_report"
    THEN Some(FirstColumnIn(t, {"player", "player name", "name"}))
    ELSE IF type = "Opposition Report" /\ detect_file_type(t) = "scout_report"
    THEN Some(FirstColumnIn(t, {"team", "team name", "squad", "club"}))
    ELSE IF type = "Player Report" /\ HasCol(t, "Player") THEN Some("Player")
    ELSE IF type = "Opposition Report" /\ HasCol(t, "Team") THEN Some("Team")
    ELSE None

\* str(x).strip().lower() of a cell or of the selected value.
StripLower(x) == IF x = Null THEN "none" ELSE Lower(StrStrip(x))

\* The subject and the data main hands to generate_report, the column having
\* been found when the file is a scout report.
ChooseSubject(t, type, selected) ==
    IF type = "Player Report" /\ detect_file_type(t) = "scout_report"
    THEN [subject |-> selected,
          data_to_send |->
             RowsOf(t, {r \in 1..NRows(t) :
                          Lower(StrStrip(Col(t, The(SubjectColumn(t, type))).vals[r]))
                             = StripLower(selected)})]
    ELSE IF type = "Opposition Report" /\ detect_file_type(t) = "scout_report"
    THEN [subject |-> selected,
          data_to_send |->
             RowsOf(t, {r \in 1..NRows(t) :
                          Col(t, The(SubjectColumn(t, type))).vals[r] = selected})]
    ELSE get_subject_and_data(t, type, selected)

\* if filtered_df.empty: st.error(...); st.stop(), in the branch of a player
\* report on a scout report.
NoDataFound(t, type, chosen) ==
    /\ type = "Player Report"
    /\ detect_file_type(t) = "scout_report"
    /\ NRows(chosen.data_to_send) = 0

\* data_to_send.to_dict(orient='records'): one dictionary per row, from the
\* column names to the cells.
to_dict_records(t) ==
    [r \in 1..NRows(t) |-> [c \in Columns(t) |-> Col(t, c).vals[r]]]

\* What generate_report hands to the stream: the system prompt of the report
\* type and the user prompt build_prompt assembles, of which the column
\* info and the data are kept apart, the model selected in the sidebar,
\* which offers one, and the temperature of the slider.
BuildPrompts(t, chosen, temperature) ==
    [system_prompt |-> "You are a match analyst",
     user_prompt |-> "data",
     model |-> Some(DEFAULT_MODEL),
     temperature |-> Some(temperature),
     available_columns_info |-> get_available_columns_info(t),
     sample_data |-> to_dict_records(chosen.data_to_send)]

----------------------------------------------------------------------------
(* OpenAIService.generate_report_stream.  The remote service is given by  *)
(* what it will do: whether the client can be built, whether the request  *)
(* fails, the chunks of the stream and whether the stream breaks after    *)
(* them.  A chunk is a content string, Null for a delta without content,  *)
(* or NoChoices for a chunk whose choices are empty.                      *)

NoChoices == "no choices"

\* The fragment for a missing key.
KeyNotFound ==
    <<"Error: OpenRouter API key not found. Please set OPENROUTER_API_KEY environment variable.">>

\* The fragment of the except branch.
ErrorFragment(error) == <<"Error generating report: ">> \o Tail(error)

\* self._ensure_client(): a key is there and the client exists or can be
\* built.
ensure_client(key, service) == key # None /\ ~service.client_fails

\* The except Exception branch of generate_report_stream for an exception
\* raised after the given number of requests: one error fragment is yielded
\* and the generator ends; anything that is not an Exception propagates.
Handled(error, fragments, n) ==
    IF IsException(error)
    THEN [fragments |-> Append(fragments, ErrorFragment(error)),
          requests |-> n, pc |-> "stream_end", raised |-> None]
    ELSE [fragments |-> fragments, requests |-> n, pc |-> "stream_end",
          raised |-> Some(error)]

\* model = model or self.model: the argument when it is given and true,
\* otherwise the default; the empty string is false.
ModelOrDefault(model) ==
    IF model = None \/ The(model) = "" THEN DEFAULT_MODEL ELSE The(model)

\* temperature = temperature or self.temperature: likewise; 0.0 is false.
TemperatureOrDefault(temperature) ==
    IF temperature = None \/ The(temperature) = 0 THEN TEMPERATURE
    ELSE The(temperature)

\* The model and temperature arguments of client.chat.completions.create.
CreateArguments(request) ==
    [model |-> ModelOrDefault(request.model),
     temperature |-> TemperatureOrDefault(request.temperature)]

\* generate_report_stream gets as far as the call of create.
ReachesCreate(key, request, service) ==
    /\ ensure_client(key, service)
    /\ request.system_prompt # ""
    /\ request.user_prompt # ""

\* generate_report_sync(system_prompt, user_prompt, model, temperature): what
\* it returns, the arguments of the request it sends, if it sends one, and
\* the number of requests; the response carries the first content the
\* service delivers.
generate_report_sync(key, request, service) ==
    IF ~ensure_client(key, service)
    THEN [result |-> KeyNotFound, sent |-> None, requests |-> 0]
    ELSE IF service.create_fails
    THEN [result |-> ErrorFragment(<<"APIConnectionError", "Connection error.">>),
          sent |-> Some(CreateArguments(request)), requests |-> 1]
    ELSE IF service.chunks = <<>> \/ Head(service.chunks) = NoChoices
    THEN [result |-> ErrorFragment(<<"IndexError", "list index out of range">>),
          sent |-> Some(CreateArguments(request)), requests |-> 1]
    ELSE [result |-> <<Head(service.chunks)>>,
          sent |-> Some(CreateArguments(request)), requests |-> 1]

\* A variant of the request that is sent a second time when it fails.
CreateStream_retry(service, fragments, n) ==
    IF service.create_fails
    THEN Handled(<<"APIConnectionError", "Connection error.">>, fragments, n + 2)
    ELSE [fragments |-> fragments, requests |-> n + 1, pc |-> "streaming",
          raised |-> None]

\* self.client.chat.completions.create(..., stream=True), n requests having
\* been made before.
CreateStream(service, fragments, n) ==
    IF service.create_fails
    THEN Handled(<<"APIConnectionError", "Connection error.">>, fragments, n + 1)
    ELSE [fragments |-> fragments, requests |-> n + 1, pc |-> "streaming",
          raised |-> None]

\* generate_report_stream up to the creation of the stream.
OpenStream(key, request, service, fragments, n) ==
    IF ~ensure_client(key, service)
    THEN [fragments |-> Append(fragments, KeyNotFound), requests |-> n,
          pc |-> "stream_end", raised |-> None]
    ELSE IF request.system_prompt = "" \/ request.user_prompt = ""
    THEN Handled(<<"ValueError", "System and user prompts are required">>,
                 fragments, n)
    ELSE CreateStream(service, fragments, n)

\* One round of 'for chunk in stream', k chunks having been received: the
\* content of the next chunk is yielded unless it is None; the end of the
\* stream ends the generator; a failure goes to the except branch.
ReadChunk(service, k, fragments, n) ==
    IF k < Len(service.chunks)
    THEN IF service.chunks[k + 1] = NoChoices
         THEN Handled(<<"IndexError", "list index out of range">>, fragments, n)
         ELSE [fragments |-> IF service.chunks[k + 1] = Null THEN fragments
                             ELSE Append(fragments, <<service.chunks[k + 1]>>),
               requests |-> n, pc |-> "streaming", raised |-> None]
    ELSE IF service.stream_fails
    THEN Handled(<<"APIError", "Stream interrupted.">>, fragments, n)
    ELSE [fragments |-> fragments, requests |-> n, pc |-> "stream_end",
          raised |-> None]

MaxChunks == 2

RECURSIVE ChunkSeqs(_)
ChunkSeqs(n) ==
    IF n = 0 THEN {<<>>}
    ELSE ChunkSeqs(n - 1)
            \cup {Append(s, x) : s \in ChunkSeqs(n - 1),
                                 x \in {"a", "b", Null, NoChoices}}

Remotes ==
    [client_fails : BOOLEAN, create_fails : BOOLEAN,
     chunks : ChunkSeqs(MaxChunks), stream_fails : BOOLEAN]

Keys == {None, Some("short"), Some("sk-or-v1-0123456789")}

\* The positions of the temperature slider a caller passes, in tenths.
SliderValues == {0, 3, 10}

\* What a caller passes: prompts, of which one may be empty, and, with
\* both prompts, a model identifier and a temperature or neither.
Requests ==
    { [system_prompt |-> "", user_prompt |-> "data",
       model |-> None, temperature |-> None],
      [system_prompt |-> "You are a match analyst", user_prompt |-> "",
       model |-> None, temperature |-> None] }
       \cup [system_prompt : {"You are a match analyst"}, user_prompt : {"data"},
             model : {None, Some("openai/gpt-4o")},
             temperature : {None} \cup {Some(v) : v \in SliderValues}]

\* The state the session variables have in a pipeline run.
NoSession ==
    /\ df_source = <<>>
    /\ renormalized = None
    /\ reordered = None
    /\ surface = <<>>
    /\ calls = 0
    /\ code_block = <<>>
    /\ returned = None
    /\ executed = None
    /\ raised = None
    /\ resolved = {}
    /\ invocations = <<>>

\* A consumer starts to iterate over generate_report_stream(...).
InitStream ==
    /\ NoSession
    /\ df = <<>>
    /\ df_normalized = None
    /\ corrections_log = <<>>
    /\ api_key \in Keys
    /\ uploaded_file = None
    /\ report_type = "Match Report"
    /\ remote \in Remotes
    /\ prompts \in Requests
    /\ pc = "stream"
    /\ requests = 0
    /\ received = 0
    /\ full_response = <<>>
    /\ shown = <<>>
    /\ is_valid = None
    /\ is_valid_for_report = None
    /\ sent = None
    /\ op = "init"

\* The first part of the generator's body, which the first next() runs.
StartStream ==
    /\ pc = "stream"
    /\ \E r \in {OpenStream(api_key, prompts, remote, full_response, requests)} :
          /\ full_response' = r.fragments
          /\ requests' = r.requests
          /\ pc' = r.pc
          /\ raised' = r.raised
    /\ sent' = IF ReachesCreate(api_key, prompts, remote)
               THEN Some(CreateArguments(prompts)) ELSE sent
    /\ op' = "generate_report_stream"
    /\ UNCHANGED <<df, df_source, corrections_log, df_normalized, renormalized,
                   reordered, surface, calls, code_block, returned, executed,
                   resolved, invocations, api_key, uploaded_file, report_type,
                   remote, prompts, received, shown, is_valid,
                   is_valid_for_report>>

\* One chunk of the stream, or its end; generate_report appends what is
\* yielded to full_response.
NextChunk ==
    /\ pc = "streaming"
    /\ \E r \in {ReadChunk(remote, received, full_response, requests)} :
          /\ full_response' = r.fragments
          /\ requests' = r.requests
          /\ pc' = r.pc
          /\ raised' = r.raised
    /\ received' = IF received < Len(remote.chunks) THEN received + 1 ELSE received
    /\ op' = "generate_report_stream"
    /\ UNCHANGED <<df, df_source, corrections_log, df_normalized, renormalized,
                   reordered, surface, calls, code_block, returned, executed,
                   resolved, invocations, api_key, uploaded_file, report_type,
                   remote, prompts, shown, is_valid, is_valid_for_report, sent>>

\* The loop of generate_report is over and the status text is set.
EndOfStream ==
    /\ pc = "stream_end"
    /\ raised = None
    /\ shown' = Append(shown, <<"Report generated successfully!">>)
    /\ pc' = "generated"
    /\ op' = "generate_report"
    /\ UNCHANGED <<df, df_source, corrections_log, df_normalized, renormalized,
                   reordered, execVars, invocations, full_response, api_key,
                   uploaded_file, report_type, remote, prompts, requests,
                   received, is_valid, is_valid_for_report, sent>>

\* The caller uses generate_report_sync instead of the stream.
GenerateReportSync ==
    /\ pc = "stream"
    /\ \E r \in {generate_report_sync(api_key, prompts, remote)} :
          /\ returned' = r.result
          /\ sent' = r.sent
          /\ requests' = requests + r.requests
    /\ pc' = "sync_end"
    /\ op' = "generate_report_sync"
    /\ UNCHANGED <<df, df_source, corrections_log, df_normalized, renormalized,
                   reordered, surface, calls, code_block, executed, raised,
                   resolved, invocations, full_response, api_key,
                   uploaded_file, report_type, remote, prompts, received,
                   shown, is_valid, is_valid_for_report>>

NextStream == StartStream \/ NextChunk \/ EndOfStream \/ GenerateReportSync

SpecStream == InitStream /\ [][NextStream]_vars

----------------------------------------------------------------------------
(* main() of the improved app. *)

\* The tables of the uploaded files.
AppTables ==
    { << [name |-> "Player", dtype |-> "object", vals |-> <<"Ann ", " Bob ">>],
         [name |-> "Team", dtype |-> "object", vals |-> <<"Ajax", "PSV">>] >>,
      << [name |-> "Squad", dtype |-> "object", vals |-> <<"Ajax", Null>>],
         [name |-> "Goals", dtype |-> "int64", vals |-> <<"3", "1">>] >>,
      << [name |-> "Goals", dtype |-> "int64", vals |-> <<"3", "3">>],
         [name |-> "Pos", dtype |-> "object", vals |-> <<"GK", "FW">>] >>,
      << [name |-> "squadName", dtype |-> "object", vals |-> <<"Ajax", "PSV">>],
         [name |-> "Summary", dtype |-> "object", vals |-> <<"quick", Null>>] >>,
      << [name |-> "squadName", dtype |-> "object", vals |-> <<"Ajax", "PSV">>],
         [name |-> "Goals", dtype |-> "int64", vals |-> <<"3", "1">>] >>,
      << [name |-> "Player", dtype |-> "object", vals |-> <<"Ann ", " Bob ">>] >>,
      << [name |-> "Player", dtype |-> "object", vals |-> <<>>],
         [name |-> "Team", dtype |-> "object", vals |-> <<>>] >> }

\* What the user uploads: nothing, or a file.
Uploads ==
    {None}
       \cup {Some([size_mb |-> 1, suffix |-> ".csv", content |-> Some(t)]) :
                t \in AppTables}
       \cup {Some([size_mb |-> MAX_FILE_SIZE_MB + 1, suffix |-> ".csv",
                   content |-> Some(t)]) : t \in AppTables}
       \cup {Some([size_mb |-> MAX_FILE_SIZE_MB, suffix |-> s,
                   content |-> Some(t)]) : s \in {".CSV", ".txt"}, t \in AppTables}
       \cup {Some([size_mb |-> 1, suffix |-> ".csv", content |-> None])}

InitApp ==
    /\ NoSession
    /\ df = <<>>
    /\ df_normalized = None
    /\ corrections_log = <<>>
    /\ api_key \in Keys
    /\ uploaded_file \in Uploads
    /\ report_type \in ReportTypes
    /\ remote = None
    /\ prompts = None
    /\ pc = "sidebar"
    /\ requests = 0
    /\ received = 0
    /\ full_response = <<>>
    /\ shown = <<>>
    /\ is_valid = None
    /\ is_valid_for_report = None
    /\ sent = None
    /\ op = "init"

\* A variant in which the run goes on after a failed validation.
AfterValidation_continue(valid, next) == next

\* if not valid: st.error(...); st.stop()
AfterValidation(valid, next) == IF valid THEN next ELSE "stopped"

\* The sidebar: the key is validated and the run stops without a valid key.
ValidateApiKey ==
    /\ pc = "sidebar"
    /\ \E r \in {validate_api_key(api_key)} :
          /\ shown' = Append(shown, r.message)
          /\ pc' = AfterValidation(r.valid, "upload")
    /\ op' = "validate_api_key"
    /\ UNCHANGED <<df, df_source, corrections_log, df_normalized, renormalized,
                   reordered, execVars, invocations, full_response, api_key,
                   uploaded_file, report_type, remote, prompts, requests,
                   received, is_valid, is_valid_for_report, sent>>

\* if uploaded_file: validate_uploaded_file(uploaded_file); without a file
\* the run ends.
Upload ==
    /\ pc = "upload"
    /\ IF uploaded_file = None
       THEN /\ pc' = "done"
            /\ UNCHANGED <<df, shown, is_valid>>
       ELSE \E r \in {validate_uploaded_file(uploaded_file)} :
               /\ is_valid' = Some(r.valid)
               /\ shown' = IF r.valid THEN shown ELSE Append(shown, r.message)
               /\ df' = IF r.valid THEN The(r.df) ELSE df
               /\ pc' = AfterValidation(r.valid, "prepare")
    /\ op' = "validate_uploaded_file"
    /\ UNCHANGED <<df_source, corrections_log, df_normalized, renormalized,
                   reordered, execVars, invocations, full_response, api_key,
                   uploaded_file, report_type, remote, prompts, requests,
                   received, is_valid_for_report, sent>>

\* sanitize_dataframe, VisualizationUtils(df_clean), normalize_columns.
Prepare ==
    /\ pc = "prepare"
    /\ \E r \in {normalize_columns(COLUMN_ALIASES, sanitize_dataframe(df))} :
          /\ df' = sanitize_dataframe(df)
          /\ df_normalized' = Some(r.df)
          /\ corrections_log' = r.log
    /\ shown' = Append(shown, <<"File uploaded and processed successfully">>)
    /\ pc' = "validate_report"
    /\ op' = "normalize_columns"
    /\ UNCHANGED <<df_source, renormalized, reordered, execVars, invocations,
                   full_response, api_key, uploaded_file, report_type, remote,
                   prompts, requests, received, is_valid, is_valid_for_report, sent>>

\* validate_dataframe_for_report(df_normalized, report_type): the run stops
\* with the first message when the table is not valid for the report.
ValidateForReport ==
    /\ pc = "validate_report"
    /\ \E r \in {validate_dataframe_for_report(The(df_normalized), report_type)} :
          /\ is_valid_for_report' = Some(r.valid)
          /\ shown' = IF r.valid THEN shown \o r.warnings
                      ELSE Append(shown, r.warnings[1])
          /\ pc' = AfterValidation(r.valid, "subject")
    /\ op' = "validate_dataframe_for_report"
    /\ UNCHANGED <<df, df_source, corrections_log, df_normalized, renormalized,
                   reordered, execVars, invocations, full_response, api_key,
                   uploaded_file, report_type, remote, prompts, requests,
                   received, is_valid, sent>>

\* File type detection and the choice of the subject: the run stops when a
\* scout report has no subject column or no row for the selected player;
\* otherwise the user selects one of the values offered, if any are.
SelectSubject ==
    /\ pc = "subject"
    /\ IF ~SubjectColumnFound(The(df_normalized), report_type)
       THEN /\ pc' = "stopped"
            /\ shown' = shown
                           \o << <<"Detected file type: ",
                                   detect_file_type(The(df_normalized))>>,
                                 NoSubjectColumn(report_type) >>
            /\ returned' = returned
       ELSE \E selected \in
                 (IF SubjectColumn(The(df_normalized), report_type) = None
                  THEN {Null}
                  ELSE Selections(The(df_normalized),
                                  The(SubjectColumn(The(df_normalized), report_type)))) :
               \E chosen \in {ChooseSubject(The(df_normalized), report_type, selected)} :
                  IF NoDataFound(The(df_normalized), report_type, chosen)
                  THEN /\ pc' = "stopped"
                       /\ shown' = shown
                             \o << <<"Detected file type: ",
                                     detect_file_type(The(df_normalized))>>,
                                   <<"No data found for player '", selected,
                                     "'. Please check your file.">> >>
                       /\ returned' = returned
                  ELSE /\ pc' = "button"
                       /\ shown' = Append(shown, <<"Detected file type: ",
                                            detect_file_type(The(df_normalized))>>)
                       /\ returned' = chosen
    /\ op' = "detect_file_type"
    /\ UNCHANGED <<df, df_source, corrections_log, df_normalized, renormalized,
                   reordered, surface, calls, code_block, executed, raised,
                   resolved, invocations, full_response, api_key,
                   uploaded_file, report_type, remote, prompts, requests,
                   received, is_valid, is_valid_for_report, sent>>

\* The button: pressed, generate_report builds the prompts and starts to
\* consume the stream; the remote service will behave in one of its ways.
PressButton ==
    /\ pc = "button"
    /\ \E pressed \in BOOLEAN :
          IF pressed
          THEN /\ \E temperature \in SliderValues :
                     prompts' = BuildPrompts(df, returned, temperature)
               /\ remote' \in Remotes
               /\ pc' = "stream"
          ELSE /\ pc' = "done"
               /\ UNCHANGED <<prompts, remote>>
    /\ op' = "generate_report"
    /\ UNCHANGED <<df, df_source, corrections_log, df_normalized, renormalized,
                   reordered, execVars, invocations, full_response, api_key,
                   uploaded_file, report_type, requests, received, shown,
                   is_valid, is_valid_for_report, sent>>

NextApp ==
    \/ ValidateApiKey
    \/ Upload
    \/ Prepare
    \/ ValidateForReport
    \/ SelectSubject
    \/ PressButton
    \/ StartStream
    \/ NextChunk
    \/ EndOfStream

SpecApp == InitApp /\ [][NextApp]_vars

----------------------------------------------------------------------------
(* Claims about the session, checked under Spec, and about the safety gate, *)
(* checked under SpecGate.                                                  *)

\* The last operation was a call of execute_code_safely.
AfterExecute == op = "execute_code_safely"

\* The positions in the deny-list of the patterns that match the code.
MatchingPatterns(code) ==
    {k \in 1..Len(DANGEROUS_PATTERNS) :
        \E i \in 1..Len(code) : MatchesAt(DANGEROUS_PATTERNS[k], code, i, TRUE)}

\* The positions in the deny-list of the patterns the gate finds in the code.
Violations(code) ==
    {k \in 1..Len(DANGEROUS_PATTERNS) : re_search(DANGEROUS_PATTERNS[k], code)}

\* The i-th smallest member of a set of positions.
Nth(positions, i) ==
    CHOOSE k \in positions : Cardinality({j \in positions : j < k}) = i - 1

\* C6: the table object the caller handed in is never mutated in place: after
\* any sequence of sanitize_dataframe, normalize_columns,
\* get_available_columns_info and execute_code_safely calls it still has
\* exactly its original columns and values.
C6_SourceTableNeverMutated == df = df_source

\* C7: check_code_safety returns safe = FALSE with a non-empty list exactly
\* when some deny-list pattern matches the code ignoring case, and safe = TRUE
\* with an empty list otherwise; the list has exactly one entry per matching
\* pattern, in deny-list order.
C7_SafetyVerdictExact ==
    op = "check_code_safety" =>
        LET matching == MatchingPatterns(code_block)
        IN  /\ returned.safe = (matching = {})
            /\ (returned.issues = <<>>) = (matching = {})
            /\ Len(returned.issues) = Cardinality(matching)
            /\ \A i \in 1..Len(returned.issues) :
                  returned.issues[i]
                     = IssueEntry(DANGEROUS_PATTERNS[Nth(matching, i)])

\* A code block that two patterns match, one of them only when case is ignored,
\* has been checked.
C7_Witness ==
    /\ op = "check_code_safety"
    /\ Cardinality(MatchingPatterns(code_block)) = 2
    /\ \E k \in MatchingPatterns(code_block) :
          ~re_search_casesensitive(DANGEROUS_PATTERNS[k], code_block)
    /\ ~returned.safe
    /\ Len(returned.issues) = 2

\* C8: in every run of execute_code_safely the text passed to exec (the code
\* after auto-repair) contains no match of any deny-list pattern.
C8_ExecutedCodeMatchesNoPattern ==
    (AfterExecute /\ executed # None) => Violations(The(executed)) = {}

\* C9: when the safety gate rejects the code block, execute_code_safely
\* returns a failure (success false, a message that lists every violation, no
\* image), calls neither auto-repair nor exec, and leaves the correction log,
\* the table and the drawing surface unchanged.
C9_RejectionChangesNothing ==
    [][ (calls' = calls + 1 /\ Violations(code_block') # {}) =>
            /\ returned'.success = FALSE
            /\ returned'.image = None
            /\ \A k \in Violations(code_block') :
                  Contains(returned'.message, IssueEntry(DANGEROUS_PATTERNS[k]))
            /\ executed' = None
            /\ corrections_log' = corrections_log
            /\ df' = df
            /\ surface' = surface ]_vars

\* A block has been rejected while the log held entries and the drawing
\* surface held marks of an earlier call.
C9_Witness ==
    /\ AfterExecute
    /\ Violations(code_block) # {}
    /\ returned.success = FALSE
    /\ executed = None
    /\ corrections_log # <<>>
    /\ surface # <<>>

\* C10: whenever execute_code_safely returns, on any exit path, the drawing
\* surface has been reset, so the image a call captures shows only what that
\* call drew.
C10_SurfaceResetOnEveryExit ==
    /\ AfterExecute => surface = <<>>
    /\ (AfterExecute /\ raised = None /\ returned.success) =>
          \A i \in 1..Len(The(returned.image)) :
             The(returned.image)[i].drawn_by = calls

\* C11: execute_code_safely never lets a failure of the generated code
\* escape: when the execution of a gate-passing block raises or tries to
\* terminate, the call returns a failure result (success false, a non-empty
\* diagnostic, no image) and nothing propagates to the caller.
C11_FailureNeverEscapes ==
    AfterExecute =>
        /\ raised = None
        /\ (executed # None /\ ~returned.success) =>
              returned.image = None /\ returned.message # <<>>

\* The last operation was a call of auto_fix_plot_code.
AfterAutoFix == op = "auto_fix_plot_code"

\* The entry a failure of the reformatting leaves in the log.
FormatFailedEntry == <<"Auto-formatting failed: ", "str(e)">>

\* C12: auto_fix_plot_code never raises: for every code string and every
\* table it returns a (code, log) pair, and a failure of the reformatting
\* only adds a log entry and keeps the code as it was before reformatting.
C12_AutoFixNeverRaises ==
    AfterAutoFix =>
        /\ raised = None
        /\ returned.corrections # <<>>
        /\ returned.corrections[Len(returned.corrections)] = FormatFailedEntry
              => returned.code
                    = FixColumns(ReplacementsLoop(code_block, <<>>, 1), df).code

\* The column names the code block refers to once the replacements are made,
\* as texts.
ReferencedNames ==
    Range(FindColumnRefs(ReplacementsLoop(code_block, <<>>, 1).code, 1))

\* The name is absent from the table and some column is close enough to it.
HasCloseMatch(col) ==
    ~InColumns(df, col) /\ get_close_matches(col, Columns(df)) # <<>>

\* The text holds a reference df['col'] or df["col"].
RefersTo(text, col) ==
    \E q \in Quotes : Contains(text, <<"df", "[", q>> \o col \o <<q, "]">>)

\* C13: for each referenced column name that is absent from the table and has
\* a closest real column of similarity at least 0.6, auto_fix_plot_code
\* rewrites every occurrence of the reference to the matched name and logs
\* exactly one column-fix entry for that name, however often it is referenced.
C13_OneColumnFixPerName ==
    (AfterAutoFix /\ raised = None) =>
        \A col \in ReferencedNames :
            HasCloseMatch(col) =>
                /\ ~RefersTo(returned.code, col)
                /\ Occurrences(returned.corrections,
                               ColumnFixEntry(col,
                                   get_close_matches(col, Columns(df))[1])) = 1

\* The number of references to the name in a text.
References(text, col) == Occurrences(FindColumnRefs(text, 1), col)

\* The name is absent from the table and the similarity of every column to
\* it is below 0.6.
HasNoCloseMatch(col) ==
    /\ ~InColumns(df, col)
    /\ \A c \in Columns(df) :
          ratio(Chars(Lex(c)), Chars(col)).num * CutoffDen
             < CutoffNum * ratio(Chars(Lex(c)), Chars(col)).den

C15_OnlyFiveNamesReachable ==
    (AfterExecute /\ executed # None) => resolved \subseteq safe_globals

\* The call has started to execute its block and has not yet reset the
\* surface.
UsesSurface(c) ==
    \/ invocations[c].at = "exec" /\ invocations[c].k > 1
    \/ invocations[c].at \in {"savefig", "clf"}

\* C16: concurrent execute_code_safely calls use the drawing surface one at
\* a time: no two of them are between the start of their execution and their
\* surface reset together, and the image a call captures holds only what its
\* own code block drew.
C16_SurfaceUsesExclusive ==
    /\ \A c, d \in Callers : UsesSurface(c) /\ UsesSurface(d) => c = d
    /\ \A c \in Callers :
          invocations[c].image # None =>
             \A i \in 1..Len(The(invocations[c].image)) :
                The(invocations[c].image)[i].drawn_by = c

\* The last operation was a call of extract_code_blocks.
AfterExtract == op = "extract_code_blocks"

\* The fenced blocks of a text from position i on, a fence opening a block
\* that the next fence closes: the language tag of each (<<>> when it has
\* none), its content and the position of its opening fence.
RECURSIVE FencedBlocks(_, _)
FencedBlocks(text, i) ==
    IF NextFence(text, i) = 0 \/ NextFence(text, NextFence(text, i) + 1) = 0
    THEN <<>>
    ELSE LET open == NextFence(text, i)
             close == NextFence(text, open + 1)
             tagged == open + 1 < close /\ ~IsSpace(text[open + 1])
         IN  << [tag |-> IF tagged THEN <<text[open + 1]>> ELSE <<>>,
                 content |-> SubSeq(text, IF tagged THEN open + 2 ELSE open + 1,
                                    close - 1),
                 start |-> open] >>
                \o FencedBlocks(text, close + 1)

\* The contents, trimmed, of the blocks that satisfy keep and are not blank.
Trimmed(blocks, keep(_)) ==
    LET kept == SelectSeq(blocks, LAMBDA b : keep(b) /\ strip(b.content) # <<>>)
    IN  [i \in 1..Len(kept) |-> strip(kept[i].content)]

HasMarker == find(full_response, marker) # 0

\* C17: when the text contains the marker, extract_code_blocks returns
\* exactly the python-tagged fenced blocks that start after the first marker,
\* in order of appearance, each trimmed of surrounding white space, without
\* the blank ones and without any block located before the marker.
C17_BlocksAfterMarker ==
    (AfterExtract /\ HasMarker) =>
        returned = Trimmed(FencedBlocks(full_response, 1),
                           LAMBDA b : /\ b.tag = <<"python">>
                                      /\ b.start > find(full_response, marker))

\* A response with a python block before the marker and one after it, of
\* which the second alone is returned.
C17_Witness ==
    /\ AfterExtract
    /\ HasMarker
    /\ returned = << <<"Y">> >>
    /\ Len(FencedBlocks(full_response, 1)) = 2
    /\ \A i \in 1..2 : FencedBlocks(full_response, 1)[i].tag = <<"python">>
    /\ FencedBlocks(full_response, 1)[1].start < find(full_response, marker)

\* The last operation was generate_report showing the response.
AfterReport == op = "generate_report"

StreamEnded == pc \in {"stream_end", "generated"}

IsErrorFragment(f) == f = KeyNotFound \/ Head(f) = "Error generating report: "

\* No client can be had: the key is missing or the client cannot be built.
NoClient == api_key = None \/ remote.client_fails

\* The generation fails before the stream exists.
FailsBeforeStream ==
    /\ ~NoClient
    /\ \/ prompts.system_prompt = ""
       \/ prompts.user_prompt = ""
       \/ remote.create_fails

\* The generation fails in the middle or at the end of the stream.
FailsInStream ==
    /\ ~NoClient
    /\ ~FailsBeforeStream
    /\ NoChoices \in Range(remote.chunks) \/ remote.stream_fails

\* The contents of the chunks received so far, as fragments.
ContentsReceived ==
    LET got == SelectSeq(SubSeq(remote.chunks, 1, received),
                         LAMBDA x : x \notin {Null, NoChoices})
    IN  [i \in 1..Len(got) |-> <<got[i]>>]

\* C19: generate_report_stream never raises to its consumer and never sends
\* a second request.  Without a credential it yields one error fragment and
\* ends with no request sent; when the generation fails, before or in the
\* middle of the stream, it yields one error fragment, as the last fragment;
\* the fragments before it are the contents received, in their order; and
\* without a failure there is no error fragment.
C19_StreamEndsWithOneError ==
    /\ raised = None
    /\ requests <= 1
    /\ SelectSeq(full_response, LAMBDA f : ~IsErrorFragment(f)) = ContentsReceived
    /\ \A i \in 1..(Len(full_response) - 1) : ~IsErrorFragment(full_response[i])
    /\ (StreamEnded /\ NoClient) =>
          full_response = <<KeyNotFound>> /\ requests = 0
    /\ (StreamEnded /\ (FailsBeforeStream \/ FailsInStream)) =>
          /\ full_response # <<>>
          /\ IsErrorFragment(full_response[Len(full_response)])
    /\ (StreamEnded /\ ~NoClient /\ ~FailsBeforeStream /\ ~FailsInStream) =>
          full_response = ContentsReceived /\ requests = 1

\* A stream that breaks after two contents: they are delivered in order and
\* the error fragment follows, one request having been sent.
C19_Witness ==
    /\ StreamEnded
    /\ FailsInStream
    /\ requests = 1
    /\ Len(full_response) = 3
    /\ full_response[1] = <<"a">>
    /\ full_response[2] = <<"b">>
    /\ IsErrorFragment(full_response[3])

\* The message the page shows last.
LastShown == shown[Len(shown)]

\* The run has stopped on the message without a request having been sent.
HaltedWith(message) ==
    /\ pc = "stopped"
    /\ shown # <<>>
    /\ LastShown = message
    /\ requests = 0

\* The first message of the report validation when it finds the normalized
\* table invalid.
ReportMessage ==
    IF df_normalized = None THEN <<>>
    ELSE IF validate_dataframe_for_report(The(df_normalized), report_type).valid
    THEN <<>>
    ELSE validate_dataframe_for_report(The(df_normalized), report_type).warnings[1]

\* C20: in every run of the improved app, once validate_uploaded_file or
\* validate_dataframe_for_report has reported the input invalid, the run is
\* stopped on the message of that validation and no request is sent for the
\* rest of the run; a request is sent only after both validations have
\* reported valid.
C20_NoRequestAfterFailedValidation ==
    /\ [](is_valid = Some(FALSE) =>
             [](HaltedWith(validate_uploaded_file(uploaded_file).message)))
    /\ [](is_valid_for_report = Some(FALSE) =>
             [](HaltedWith(ReportMessage)))
    /\ [](requests > 0 =>
             is_valid = Some(TRUE) /\ is_valid_for_report = Some(TRUE))

\* A run stopped by the report validation, the file having been accepted.
C20_Witness ==
    /\ pc = "stopped"
    /\ is_valid = Some(TRUE)
    /\ is_valid_for_report = Some(FALSE)
    /\ requests = 0

\* The fenced regions of the report part of the response, the part before
\* the first marker or the whole response when it has no marker.
ReportRegions == FencedBlocks(SplitAtMarker(full_response).report_text, 1)

\* C21: the prose report that generate_report shows and offers for download
\* contains no fenced region: after the split at the marker and the two
\* removals, report_text_clean has no fence that a later fence closes.
C21_ReportHasNoFencedRegion ==
    AfterReport => FencedBlocks(returned.report_text_clean, 1) = <<>>

\* A response with the marker whose report part holds a fenced region that
\* is not tagged python, of which the prose and the end of the line behind
\* the region are left.
C21_Witness ==
    /\ AfterReport
    /\ HasMarker
    /\ Len(ReportRegions) = 1
    /\ ReportRegions[1].tag # <<"python">>
    /\ returned.report_text_clean = Prose \o <<"\n">>

\* The entries a step appends to the session log.
Appended ==
    SubSeq(corrections_log', Len(corrections_log) + 1, Len(corrections_log'))

\* The position in the alias map of the mapping an entry records, 0 when it
\* records none.
AliasPosition(entry) ==
    IF \E k \in 1..Len(COLUMN_ALIASES) :
          entry = MappingEntry(COLUMN_ALIASES[k][1], COLUMN_ALIASES[k][2])
    THEN CHOOSE k \in 1..Len(COLUMN_ALIASES) :
            entry = MappingEntry(COLUMN_ALIASES[k][1], COLUMN_ALIASES[k][2])
    ELSE 0

\* The stage of the repair an entry records: 1 for a replacement fix, 2 for
\* a column fix or warning, 3 for the formatting entry, 0 for anything else.
RepairStage(entry) ==
    IF Head(entry) = "Code fix: " THEN 1
    ELSE IF Head(entry) \in {"Column fix: ", "Warning: Column "} THEN 2
    ELSE IF Head(entry) \in {"Code auto-formatted with autopep8",
                             "Auto-formatting failed: "} THEN 3
    ELSE 0

\* C22: the session correction log is append-only and in application order.
\* Every step keeps the entries the log holds; normalize_columns appends
\* mapping entries in alias-map order; a call of execute_code_safely that
\* passes the gate appends the entries of its repair once, replacement fixes
\* first, then column fixes and warnings, then one formatting entry, and a
\* rejected call appends nothing; auto_fix_plot_code on its own and every
\* other operation leave the log as it is.
C22_LogAppendOnlyInOrder ==
    [][ /\ Len(corrections_log') >= Len(corrections_log)
        /\ SubSeq(corrections_log', 1, Len(corrections_log)) = corrections_log
        /\ op' = "normalize_columns" =>
              /\ \A i \in 1..Len(Appended) : AliasPosition(Appended[i]) # 0
              /\ \A i, j \in 1..Len(Appended) :
                    i < j => AliasPosition(Appended[i]) < AliasPosition(Appended[j])
        /\ (op' = "execute_code_safely" /\ Violations(code_block') # {}) =>
              Appended = <<>>
        /\ (op' = "execute_code_safely" /\ Violations(code_block') = {}) =>
              /\ \E format_fails \in BOOLEAN :
                    Appended
                       = auto_fix_plot_code(code_block', df, format_fails).corrections
              /\ \A i \in 1..Len(Appended) : RepairStage(Appended[i]) # 0
              /\ \A i, j \in 1..Len(Appended) :
                    i < j => RepairStage(Appended[i]) <= RepairStage(Appended[j])
              /\ Cardinality({i \in 1..Len(Appended) :
                                 RepairStage(Appended[i]) = 3}) = 1
        /\ op' \notin {"normalize_columns", "execute_code_safely"} =>
              Appended = <<>> ]_vars

\* The log holds the two mappings of the table in alias-map order and, after
\* them, the entries of one repair: a replacement fix, a warning and the
\* formatting entry; the block has then been repaired on its own.
C22_Witness ==
    /\ AfterAutoFix
    /\ returned.corrections # <<>>
    /\ Len(corrections_log) = 5
    /\ corrections_log[1] = MappingEntry("Squad", "Team")
    /\ corrections_log[2] = MappingEntry("Name", "Player")
    /\ RepairStage(corrections_log[3]) = 1
    /\ RepairStage(corrections_log[4]) = 2
    /\ RepairStage(corrections_log[5]) = 3

\* The button has been pressed and generate_report has built the prompts.
PromptsBuilt == pc \notin {"sidebar", "upload", "prepare"} /\ prompts # None

\* The column names the column info of the prompt lists: in each line, what
\* stands between the dash and the type.
InfoColumns(info) ==
    {info[i + 1] : i \in {k \in 1..(Len(info) - 1) : info[k] = "- "}}

\* The column names of the data rows of the prompt.
DataColumns(sample_data) ==
    UNION {DOMAIN sample_data[r] : r \in 1..Len(sample_data)}

\* C23: after normalization the column info built for the prompt lists
\* every column of the normalized table the data rows are taken from, the
\* canonical columns normalize_columns added included: the column names of
\* the column info are the column names of the data sent to the model.
C23_ColumnInfoMatchesData ==
    (PromptsBuilt /\ prompts.sample_data # <<>>) =>
        /\ InfoColumns(prompts.available_columns_info)
              = Columns(The(df_normalized))
        /\ InfoColumns(prompts.available_columns_info)
              = DataColumns(prompts.sample_data)

\* C24: validation and normalization agree on the alias map: whenever
\* validate_dataframe_for_report has accepted the normalized table for the
\* report type, every required column of the report type is a column of the
\* normalized table, and the subject selection of a player or opposition
\* report filters on it and does not fall back to the whole table with the
\* subject "the match".
C24_AcceptedTableHasRequiredColumns ==
    /\ is_valid_for_report = Some(TRUE) =>
          \A i \in 1..Len(required_columns(report_type)) :
             HasCol(The(df_normalized), required_columns(report_type)[i])
    /\ (is_valid_for_report = Some(TRUE) /\ returned # None
           /\ report_type # "Match Report") =>
          returned.subject # "the match"

\* The code after the replacement step of auto_fix_plot_code.
Replaced == ReplacementsLoop(code_block, <<>>, 1).code

\* The entries of the replacement table whose pattern is malformed code: all
\* but the last, which replaces df.plot() by itself.
Malformed == 1..(Len(replacements) - 1)

\* C25: auto-repair reaches a fixpoint on its known malformed patterns: the
\* code the replacement step of auto_fix_plot_code returns contains no
\* occurrence of any malformed pattern of the replacement table, and the
\* replacement step applied to it changes nothing.
C25_ReplacementsReachFixpoint ==
    AfterAutoFix =>
        /\ \A k \in Malformed : ~Contains(Replaced, replacements[k][1])
        /\ ReplacementsLoop(Replaced, <<>>, 1).code = Replaced

\* A request has been sent by generate_report_stream or generate_report_sync.
RequestSent == sent # None

\* C26: the generation request uses the caller's parameters: when the caller
\* passes a temperature, 0.0 included, or a model identifier, the request is
\* sent with exactly that temperature and that model, and the configured
\* defaults are used only for an argument that is not passed.
C26_RequestUsesCallerParameters ==
    RequestSent =>
        /\ The(sent).model = IF prompts.model = None THEN DEFAULT_MODEL
                             ELSE The(prompts.model)
        /\ The(sent).temperature = IF prompts.temperature = None THEN TEMPERATURE
                                   ELSE The(prompts.temperature)

\* The last operation was a call of sanitize_dataframe.
AfterSanitize == op = "sanitize_dataframe"

\* The columns of the table whose name is not sensitive, in input order.
Retained == SelectSeq(df, LAMBDA c : ~IsRemoved(c.name))

\* C27: sanitize_dataframe changes the table only by column removal and
\* value trimming: the columns of the result are the input columns whose
\* name is not sensitive, in input order, and every retained cell is the
\* input cell, a string value without its surrounding white space and a
\* missing cell still missing.
C27_SanitizeRemovesAndTrimsOnly ==
    AfterSanitize =>
        /\ Len(returned) = Len(Retained)
        /\ \A i \in 1..Len(Retained) :
              /\ returned[i].name = Retained[i].name
              /\ Len(returned[i].vals) = Len(Retained[i].vals)
              /\ \A j \in 1..Len(Retained[i].vals) :
                    returned[i].vals[j]
                       = IF Retained[i].vals[j] = Null THEN Null
                         ELSE IF Retained[i].dtype = "object"
                         THEN StrStrip(Retained[i].vals[j])
                         ELSE Retained[i].vals[j]

====
